---- MODULE Spec2Model ----
(***************************************************************************)
(* Workflow state machine and memory model of agent-checklist:             *)
(*   - Coordinator.next_action            (engine/coordinator.py)          *)
(*   - the state-transition functions     (memory/state_manager.py)        *)
(*   - the skill dispatch table           (memory/state_manager.py)        *)
(*   - the ChecklistAgent entry points    (app.py)                         *)
(*                                                                         *)
(* Representation.                                                         *)
(*   A text is a sequence of one-character (or opaque multi-character)     *)
(*   tokens, so that str.strip() is computed and not assumed.              *)
(*   An identifier ("item-3", "item-1-2") is the sequence of its           *)
(*   "-"-separated segments, so that the f-string formatting and the       *)
(*   split/int parsing of _next_item_id are computed separately.           *)
(*   Optional[T] is None == <<>> or Some(x) == <<x>>.                      *)
(*   ResearchState.core and .semantic are never read or written by any     *)
(*   operation below and are left out; so are the uuid and the creation    *)
(*   time of log entries.                                                  *)
(***************************************************************************)
EXTENDS Integers, Sequences, FiniteSets, TLC

VARIABLES
    state,      \* ChecklistAgent.state : the current ResearchState
    pre,        \* the ResearchState the last operation was called on
    last,       \* the last operation and its arguments
    decision,   \* the Decision returned by the last next_action call
    err,        \* the exception raised by the last operation, or NoError
    now,        \* the reading of datetime.utcnow()
    heap        \* the objects of the process, where agents are told apart

vars == <<state, pre, last, decision, err, now, heap>>

----------------------------------------------------------------------------
(* Bounds of the model                                                     *)

\* largest reading of the clock
MaxTime == 1

----------------------------------------------------------------------------
(* Optional values, texts                                                  *)

None == <<>>
Some(x) == <<x>>
IsNone(o) == o = <<>>
Truthy(o) == o # <<>> /\ o[1] # <<>>     \* Python truthiness of Optional[str]
Get(o) == o[1]

SP == " "

\* a text taken as typed, without str.strip()
Unstripped(s) == s

RECURSIVE Strip(_)
Strip(s) ==
    IF s = <<>> THEN s
    ELSE IF Head(s) = SP THEN Strip(Tail(s))
    ELSE IF s[Len(s)] = SP THEN Strip(SubSeq(s, 1, Len(s) - 1))
    ELSE s

----------------------------------------------------------------------------
(* domain.py                                                               *)

WorkflowPhase ==
    { "idle", "receiving_description", "generating_checklist",
      "presenting_initial_checklist", "asking_refinement_questions",
      "awaiting_user_response", "processing_feedback", "updating_checklist",
      "presenting_revised_checklist", "check_approval", "saving_checklist",
      "confirming_save", "listening_for_progress", "receiving_user_input",
      "interpreting_intent", "asking_clarification", "logging_context",
      "persisting_update", "acknowledging_progress", "checking_completion",
      "generating_summary", "presenting_summary", "session_complete" }

ChecklistItemStatus == { "pending", "in_progress", "complete" }

SkillName ==
    { "generate_initial_checklist", "generate_refinement_questions",
      "incorporate_refinements", "interpret_progress_update",
      "generate_completion_summary" }

DecisionType == { "llm_skill", "tool", "complete", "noop" }

MAX_REFINEMENT_QUESTIONS == 3

NoSkill == "None"

DecisionLlm(skill, reason) ==
    [decision_type |-> "llm_skill", skill |-> skill, reason |-> reason]

DecisionNoop(reason) ==
    [decision_type |-> "noop", skill |-> NoSkill, reason |-> reason]

----------------------------------------------------------------------------
(* memory/models.py                                                        *)

WorkflowState(t) ==
    [ phase                    |-> "idle",
      questions_asked          |-> 0,
      max_refinement_questions |-> 3,
      checklist_finalized      |-> FALSE,
      pending_save             |-> FALSE,
      listening_started_at     |-> None,
      last_transition_at       |-> t,
      awaiting_clarification   |-> FALSE ]

WorkingMemory ==
    [ original_description |-> None,
      checklist_items      |-> <<>>,
      refinement_questions |-> <<>>,
      refinement_exchanges |-> <<>>,
      latest_user_message  |-> None,
      conversation_log     |-> <<>>,
      progress_log         |-> <<>>,
      checklist_file_path  |-> None,
      completion_summary   |-> None,
      clarification_prompt |-> None ]

ResearchState(t) == [ workflow |-> WorkflowState(t), working |-> WorkingMemory ]

ChecklistSubItem(id, summary, detail, criteria) ==
    [ sub_item_id |-> id, summary |-> summary, detail |-> detail,
      status |-> "pending", success_criteria |-> criteria, notes |-> <<>> ]

ChecklistItem(id, summary, detail, criteria, subs) ==
    [ item_id |-> id, summary |-> summary, detail |-> detail,
      status |-> "pending", success_criteria |-> criteria, notes |-> <<>>,
      sub_items |-> subs ]

ConversationEntry(kind, content, metadata) ==
    [ kind |-> kind, content |-> content, metadata |-> metadata ]

NoMetadata == <<>>
SkillMetadata(skill) == << <<"skill", skill>> >>

RefinementPrompt(question, intent) == [ question |-> question, intent |-> intent ]

RefinementExchange(question, intent, answer) ==
    [ question |-> question, intent |-> intent, answer |-> answer ]

----------------------------------------------------------------------------
(* engine/coordinator.py                                                   *)

\* next_action with the generating_summary branch lost (it falls through to noop)
next_action_without_summary(s) ==
    LET phase == s.workflow.phase IN
    IF phase = "generating_checklist" THEN
        DecisionLlm("generate_initial_checklist",
                    "Transform the goal description into a checklist")
    ELSE IF phase = "asking_refinement_questions" THEN
        IF s.workflow.questions_asked >= s.workflow.max_refinement_questions THEN
            DecisionNoop("Awaiting user responses because refinement question limit was reached")
        ELSE
            DecisionLlm("generate_refinement_questions",
                        "Need up to three clarifying questions")
    ELSE IF phase = "processing_feedback" THEN
        DecisionLlm("incorporate_refinements", "User provided refinement feedback")
    ELSE IF phase = "interpreting_intent" THEN
        DecisionLlm("interpret_progress_update", "Interpret the latest progress update")
    ELSE
        DecisionNoop("No LLM action required for the current phase")

\* next_action with the ceiling compared by > instead of >=
next_action_ceiling_off_by_one(s) ==
    LET phase == s.workflow.phase IN
    IF phase = "generating_checklist" THEN
        DecisionLlm("generate_initial_checklist",
                    "Transform the goal description into a checklist")
    ELSE IF phase = "asking_refinement_questions" THEN
        IF s.workflow.questions_asked > s.workflow.max_refinement_questions THEN
            DecisionNoop("Awaiting user responses because refinement question limit was reached")
        ELSE
            DecisionLlm("generate_refinement_questions",
                        "Need up to three clarifying questions")
    ELSE IF phase = "processing_feedback" THEN
        DecisionLlm("incorporate_refinements", "User provided refinement feedback")
    ELSE IF phase = "interpreting_intent" THEN
        DecisionLlm("interpret_progress_update", "Interpret the latest progress update")
    ELSE IF phase = "generating_summary" THEN
        DecisionLlm("generate_completion_summary",
                    "All items complete; compile the final summary")
    ELSE
        DecisionNoop("No LLM action required for the current phase")

\* next_action that also stops asking when the checklist is empty
next_action_reading_checklist(s) ==
    LET phase == s.workflow.phase IN
    IF phase = "generating_checklist" THEN
        DecisionLlm("generate_initial_checklist",
                    "Transform the goal description into a checklist")
    ELSE IF phase = "asking_refinement_questions" THEN
        IF s.workflow.questions_asked >= s.workflow.max_refinement_questions
           \/ s.working.checklist_items = <<>> THEN
            DecisionNoop("Awaiting user responses because refinement question limit was reached")
        ELSE
            DecisionLlm("generate_refinement_questions",
                        "Need up to three clarifying questions")
    ELSE IF phase = "processing_feedback" THEN
        DecisionLlm("incorporate_refinements", "User provided refinement feedback")
    ELSE IF phase = "interpreting_intent" THEN
        DecisionLlm("interpret_progress_update", "Interpret the latest progress update")
    ELSE IF phase = "generating_summary" THEN
        DecisionLlm("generate_completion_summary",
                    "All items complete; compile the final summary")
    ELSE
        DecisionNoop("No LLM action required for the current phase")

next_action(s) ==
    LET phase == s.workflow.phase IN
    IF phase = "generating_checklist" THEN
        DecisionLlm("generate_initial_checklist",
                    "Transform the goal description into a checklist")
    ELSE IF phase = "asking_refinement_questions" THEN
        IF s.workflow.questions_asked >= s.workflow.max_refinement_questions THEN
            DecisionNoop("Awaiting user responses because refinement question limit was reached")
        ELSE
            DecisionLlm("generate_refinement_questions",
                        "Need up to three clarifying questions")
    ELSE IF phase = "processing_feedback" THEN
        DecisionLlm("incorporate_refinements", "User provided refinement feedback")
    ELSE IF phase = "interpreting_intent" THEN
        DecisionLlm("interpret_progress_update", "Interpret the latest progress update")
    ELSE IF phase = "generating_summary" THEN
        DecisionLlm("generate_completion_summary",
                    "All items complete; compile the final summary")
    ELSE
        DecisionNoop("No LLM action required for the current phase")

create_initial_state(t) ==
    [ ResearchState(t) EXCEPT !.workflow.max_refinement_questions = MAX_REFINEMENT_QUESTIONS ]

----------------------------------------------------------------------------
(* Identifiers: formatting and parsing                                     *)

\* str(n) for the small non-negative integers the model reaches
DecimalDigits == << "1", "2", "3", "4", "5", "6", "7", "8", "9" >>

Str(n) == IF n = 0 THEN "0" ELSE DecimalDigits[n]

\* int(segment): the integer a "-"-free string parses to; ok = FALSE is ValueError.
\* int() accepts leading zeros ("02" is 2).
IntOfSegment(seg) ==
    IF seg = "0" THEN [ok |-> TRUE, v |-> 0]
    ELSE IF \E n \in 1..Len(DecimalDigits) : DecimalDigits[n] = seg
         THEN [ok |-> TRUE, v |-> CHOOSE n \in 1..Len(DecimalDigits) : DecimalDigits[n] = seg]
    ELSE IF \E n \in 1..Len(DecimalDigits) : "0" \o DecimalDigits[n] = seg
         THEN [ok |-> TRUE,
               v |-> CHOOSE n \in 1..Len(DecimalDigits) : "0" \o DecimalDigits[n] = seg]
    ELSE [ok |-> FALSE, v |-> 0]

\* int(s) for a string s given by its "-"-separated segments: one numeric
\* segment, or an empty segment followed by one (a minus sign)
IntOfSegments(segs) ==
    IF Len(segs) = 1 THEN IntOfSegment(segs[1])
    ELSE IF Len(segs) = 2 /\ segs[1] = "" /\ IntOfSegment(segs[2]).ok
         THEN [ok |-> TRUE, v |-> 0 - IntOfSegment(segs[2]).v]
    ELSE [ok |-> FALSE, v |-> 0]

Max(S) == CHOOSE m \in S : \A k \in S : k <= m

\* f"item-{n}"
ItemId(n) == << "item", Str(n) >>

\* f"{parent_id}-{n}"
SubItemId(parent_id, n) == Append(parent_id, Str(n))

\* item_id.startswith("item-")
StartsWithItem(id) == Len(id) >= 2 /\ id[1] = "item"

\* sub_id.startswith(f"{parent_id}-")
StartsWithParent(parent_id, id) ==
    Len(id) > Len(parent_id) /\ SubSeq(id, 1, Len(parent_id)) = parent_id

\* _next_item_id numbering by the count of the ids instead of their maximum
_next_item_id_by_count(existing_ids) == ItemId(Cardinality(existing_ids) + 1)

_next_item_id(existing_ids) ==
    LET parsed(id) == IntOfSegments(Tail(id))
        idxs == { parsed(id).v : id \in { i \in existing_ids : StartsWithItem(i) /\ parsed(i).ok } }
        max_index == Max(idxs \cup {0})
    IN  ItemId(max_index + 1)

_next_sub_item_id(parent_id, existing_ids) ==
    LET parsed(id) == IntOfSegment(id[Len(id)])
        idxs == { parsed(id).v :
                    id \in { i \in existing_ids : StartsWithParent(parent_id, i) /\ parsed(i).ok } }
        max_index == Max(idxs \cup {0})
    IN  SubItemId(parent_id, max_index + 1)

_build_sub_items_from_bullets(parent_id, sub_bullets) ==
    [ index \in 1..Len(sub_bullets) |->
        ChecklistSubItem(SubItemId(parent_id, index), sub_bullets[index].summary,
                         sub_bullets[index].detail, sub_bullets[index].success_criteria) ]

\* the keys of {x.id: x for x in list}
Ids(list, key) == { list[i][key] : i \in 1..Len(list) }

\* the element a dict built from the list in order maps `id` to: the last one
LastIndex(list, key, id) ==
    Max({ i \in 1..Len(list) : list[i][key] = id })

\* the attribute a list is keyed by
ItemKey == "item_id"
SubKey == "sub_item_id"

\* [x for x in list if key(x) != id]
RECURSIVE Without(_, _, _)
Without(list, key, id) ==
    IF list = <<>> THEN <<>>
    ELSE IF Head(list)[key] = id THEN Without(Tail(list), key, id)
    ELSE <<Head(list)>> \o Without(Tail(list), key, id)

\* the empty string, as an identifier: "".split("-") == [""]
EmptyId == << "" >>

\* Python truthiness of an Optional[str] identifier
IdTruthy(o) == o # None /\ Get(o) # EmptyId

\* a or b, for Optional[str] a and b
OrElse(a, b) == IF Truthy(a) THEN a ELSE b

\* a or b, for Optional[str] a and str b
OrText(a, b) == IF Truthy(a) THEN Get(a) ELSE b

----------------------------------------------------------------------------
(* memory/state_manager.py: caller-event transitions.                      *)
(* `t` is the value datetime.utcnow() returns during the call.             *)

UserEntry(text) == ConversationEntry("user", text, NoMetadata)

ingest_user_description(s, description, t) ==
    LET sanitized == Strip(description) IN
    IF sanitized = <<>> THEN s
    ELSE [ s EXCEPT !.working.original_description = Some(sanitized),
                    !.workflow.phase = "generating_checklist",
                    !.workflow.last_transition_at = t,
                    !.working.conversation_log = Append(@, UserEntry(sanitized)) ]

record_user_feedback(s, feedback, t) ==
    LET sanitized == Strip(feedback) IN
    IF sanitized = <<>> THEN s
    ELSE [ s EXCEPT !.working.latest_user_message = Some(sanitized),
                    !.workflow.phase = "processing_feedback",
                    !.workflow.last_transition_at = t,
                    !.working.conversation_log = Append(@, UserEntry(sanitized)) ]

ingest_progress_input(s, user_message, t) ==
    LET sanitized == Strip(user_message) IN
    IF sanitized = <<>> THEN s
    ELSE [ s EXCEPT !.working.latest_user_message = Some(sanitized),
                    !.workflow.phase = "interpreting_intent",
                    !.workflow.last_transition_at = t,
                    !.working.conversation_log = Append(@, UserEntry(sanitized)) ]

\* mark_checklist_approved asking for the save without finalizing the checklist
mark_checklist_approved_unfinalized(s, t) ==
    [ s EXCEPT !.workflow.phase = "saving_checklist",
               !.workflow.pending_save = TRUE,
               !.workflow.last_transition_at = t ]

\* mark_checklist_approved without the pending_save flag
mark_checklist_approved_not_pending(s, t) ==
    [ s EXCEPT !.workflow.checklist_finalized = TRUE,
               !.workflow.phase = "saving_checklist",
               !.workflow.last_transition_at = t ]

mark_checklist_approved(s, t) ==
    [ s EXCEPT !.workflow.checklist_finalized = TRUE,
               !.workflow.phase = "saving_checklist",
               !.workflow.pending_save = TRUE,
               !.workflow.last_transition_at = t ]

\* mark_checklist_rejected testing the reason before it is stripped
mark_checklist_rejected_testing_raw(s, reason, t) ==
    LET sanitized == Strip(reason) IN
    [ s EXCEPT !.working.conversation_log =
                   IF reason # <<>> THEN Append(@, UserEntry(sanitized)) ELSE @,
               !.workflow.phase = "processing_feedback",
               !.workflow.last_transition_at = t ]

mark_checklist_rejected(s, reason, t) ==
    LET sanitized == Strip(reason) IN
    [ s EXCEPT !.working.conversation_log =
                   IF sanitized # <<>> THEN Append(@, UserEntry(sanitized)) ELSE @,
               !.workflow.phase = "processing_feedback",
               !.workflow.last_transition_at = t ]

\* record_save_result leaving pending_save as it was
record_save_result_still_pending(s, artifact, file_path, t) ==
    [ s EXCEPT !.working.checklist_file_path = Some(file_path),
               !.workflow.phase = "confirming_save",
               !.workflow.last_transition_at = t,
               !.working.conversation_log =
                   Append(@, ConversationEntry("system",
                                               <<"Checklist saved to ">> \o file_path,
                                               << <<"artifact_summary", artifact>> >>)) ]

record_save_result(s, artifact, file_path, t) ==
    [ s EXCEPT !.working.checklist_file_path = Some(file_path),
               !.workflow.pending_save = FALSE,
               !.workflow.phase = "confirming_save",
               !.workflow.last_transition_at = t,
               !.working.conversation_log =
                   Append(@, ConversationEntry("system",
                                               <<"Checklist saved to ">> \o file_path,
                                               << <<"artifact_summary", artifact>> >>)) ]

\* activate_tracking_mode stamping listening_started_at on every call
activate_tracking_mode_restamping(s, t) ==
    [ s EXCEPT !.workflow.phase = "listening_for_progress",
               !.workflow.listening_started_at = Some(t),
               !.workflow.last_transition_at = t ]

activate_tracking_mode(s, t) ==
    [ s EXCEPT !.workflow.phase = "listening_for_progress",
               !.workflow.listening_started_at = IF @ # None THEN @ ELSE Some(t),
               !.workflow.last_transition_at = t ]

\* acknowledge_progress_ack keeping the clarification prompt
acknowledge_progress_ack_keeping_prompt(s, t) ==
    [ s EXCEPT !.workflow.phase = "listening_for_progress",
               !.workflow.awaiting_clarification = FALSE,
               !.workflow.last_transition_at = t,
               !.working.latest_user_message = None ]

\* acknowledge_progress_ack keeping the latest user message
acknowledge_progress_ack_keeping_message(s, t) ==
    [ s EXCEPT !.workflow.phase = "listening_for_progress",
               !.workflow.awaiting_clarification = FALSE,
               !.workflow.last_transition_at = t,
               !.working.clarification_prompt = None ]

acknowledge_progress_ack(s, t) ==
    [ s EXCEPT !.workflow.phase = "listening_for_progress",
               !.workflow.awaiting_clarification = FALSE,
               !.workflow.last_transition_at = t,
               !.working.clarification_prompt = None,
               !.working.latest_user_message = None ]

acknowledge_summary_delivery(s, t) ==
    [ s EXCEPT !.workflow.phase = "session_complete",
               !.workflow.last_transition_at = t ]

\* any(sub.status != COMPLETE for sub in sub_items)
RECURSIVE AnySubIncomplete(_)
AnySubIncomplete(sub_items) ==
    IF sub_items = <<>> THEN FALSE
    ELSE IF Head(sub_items).status # "complete" THEN TRUE
    ELSE AnySubIncomplete(Tail(sub_items))

\* the for loop of a checklist_is_complete that looks at the items only
RECURSIVE EveryItemComplete_ignoring_sub_items(_)
EveryItemComplete_ignoring_sub_items(items) ==
    IF items = <<>> THEN TRUE
    ELSE IF Head(items).status # "complete" THEN FALSE
    ELSE EveryItemComplete_ignoring_sub_items(Tail(items))

\* the for loop of checklist_is_complete: False at the first item that is not
\* complete or has a sub-item that is not, True when the loop ends
RECURSIVE EveryItemComplete(_)
EveryItemComplete(items) ==
    IF items = <<>> THEN TRUE
    ELSE IF Head(items).status # "complete" THEN FALSE
    ELSE IF AnySubIncomplete(Head(items).sub_items) THEN FALSE
    ELSE EveryItemComplete(Tail(items))

checklist_is_complete(s) ==
    IF s.working.checklist_items = <<>> THEN FALSE
    ELSE EveryItemComplete(s.working.checklist_items)

\* conversation_log[-10:]
ExcerptLength == 10

LastN(list, n) == IF Len(list) <= n THEN list ELSE SubSeq(list, Len(list) - n + 1, Len(list))

ChecklistArtifactItem(item) ==
    [ summary |-> item.summary, detail |-> item.detail, status |-> item.status,
      notes |-> item.notes, sub_items |-> item.sub_items ]

\* raised = NoError and the artifact, or the exception and no artifact
NoError == "None"

\* build_artifact without the test of the description
build_artifact_unchecked(s, t) ==
    [ raised |-> NoError,
      value |->
        [ task_description    |-> OrText(s.working.original_description, <<>>),
          created_at          |-> t,
          items               |-> [ i \in 1..Len(s.working.checklist_items) |->
                                      ChecklistArtifactItem(s.working.checklist_items[i]) ],
          refinement_context  |-> s.working.refinement_exchanges,
          progress_log        |-> s.working.progress_log,
          completion_notes    |-> s.working.completion_summary,
          conversation_excerpt |-> LastN(s.working.conversation_log, ExcerptLength) ] ]

build_artifact(s, t) ==
    IF s.working.original_description = None
    THEN [ raised |-> "ValueError: Cannot persist checklist without an original description",
           value |-> None ]
    ELSE [ raised |-> NoError,
           value |->
             [ task_description    |-> Get(s.working.original_description),
               created_at          |-> t,
               items               |-> [ i \in 1..Len(s.working.checklist_items) |->
                                           ChecklistArtifactItem(s.working.checklist_items[i]) ],
               refinement_context  |-> s.working.refinement_exchanges,
               progress_log        |-> s.working.progress_log,
               completion_notes    |-> s.working.completion_summary,
               conversation_excerpt |-> LastN(s.working.conversation_log, ExcerptLength) ] ]

----------------------------------------------------------------------------
(* memory/state_manager.py: skill-result handlers                          *)

AgentEntry(content, skill) == ConversationEntry("agent", content, SkillMetadata(skill))

\* _handle_generate_initial_checklist without the reset of questions_asked
_handle_generate_initial_checklist_keeping_count(s, output, t) ==
    LET items == [ index \in 1..Len(output.items) |->
                     LET bullet == output.items[index]
                         parent_id == ItemId(index)
                     IN  ChecklistItem(parent_id, bullet.summary, bullet.detail,
                                       bullet.success_criteria,
                                       _build_sub_items_from_bullets(parent_id, bullet.sub_items)) ]
    IN  [ s EXCEPT !.working.checklist_items = items,
                   !.workflow.phase = "asking_refinement_questions",
                   !.workflow.last_transition_at = t,
                   !.working.conversation_log =
                       Append(@, AgentEntry(output.ai_response, "generate_initial_checklist")) ]

\* _handle_generate_refinement_questions with questions_asked counting calls
_handle_generate_refinement_questions_counting_calls(s, output, t) ==
    LET prompts == [ i \in 1..Len(output.questions) |->
                       RefinementPrompt(output.questions[i].question, output.questions[i].intent) ]
        agent_message == IF output.ai_response # <<>> THEN output.ai_response
                         ELSE << "Here are a few clarification questions." >>
    IN  [ s EXCEPT !.working.refinement_questions = prompts,
                   !.workflow.questions_asked = @ + 1,
                   !.workflow.phase = IF prompts # <<>> THEN "awaiting_user_response"
                                      ELSE "check_approval",
                   !.workflow.last_transition_at = t,
                   !.working.conversation_log =
                       Append(@, AgentEntry(agent_message, "generate_refinement_questions"))
                       \o [ i \in 1..Len(prompts) |->
                              ConversationEntry("agent", prompts[i].question, NoMetadata) ] ]

_handle_generate_initial_checklist(s, output, t) ==
    LET items == [ index \in 1..Len(output.items) |->
                     LET bullet == output.items[index]
                         parent_id == ItemId(index)
                     IN  ChecklistItem(parent_id, bullet.summary, bullet.detail,
                                       bullet.success_criteria,
                                       _build_sub_items_from_bullets(parent_id, bullet.sub_items)) ]
    IN  [ s EXCEPT !.working.checklist_items = items,
                   !.workflow.questions_asked = 0,
                   !.workflow.phase = "asking_refinement_questions",
                   !.workflow.last_transition_at = t,
                   !.working.conversation_log =
                       Append(@, AgentEntry(output.ai_response, "generate_initial_checklist")) ]

DefaultQuestionsMessage == << "Here are a few clarification questions." >>

\* _handle_generate_refinement_questions leaving the phase as it is after a
\* batch of questions
_handle_generate_refinement_questions_still_asking(s, output, t) ==
    LET prompts == [ i \in 1..Len(output.questions) |->
                       RefinementPrompt(output.questions[i].question, output.questions[i].intent) ]
        agent_message == IF output.ai_response # <<>> THEN output.ai_response
                         ELSE << "Here are a few clarification questions." >>
    IN  [ s EXCEPT !.working.refinement_questions = prompts,
                   !.workflow.questions_asked = @ + Len(prompts),
                   !.workflow.last_transition_at = t,
                   !.working.conversation_log =
                       Append(@, AgentEntry(agent_message, "generate_refinement_questions"))
                       \o [ i \in 1..Len(prompts) |->
                              ConversationEntry("agent", prompts[i].question, NoMetadata) ] ]

\* _handle_generate_refinement_questions logging no introduction when the
\* output has no ai_response
_handle_generate_refinement_questions_skipping_intro(s, output, t) ==
    LET prompts == [ i \in 1..Len(output.questions) |->
                       RefinementPrompt(output.questions[i].question, output.questions[i].intent) ]
    IN  [ s EXCEPT !.working.refinement_questions = prompts,
                   !.workflow.questions_asked = @ + Len(prompts),
                   !.workflow.phase = IF prompts # <<>> THEN "awaiting_user_response"
                                      ELSE "check_approval",
                   !.workflow.last_transition_at = t,
                   !.working.conversation_log =
                       ( IF output.ai_response # <<>>
                         THEN Append(@, AgentEntry(output.ai_response,
                                                   "generate_refinement_questions"))
                         ELSE @ )
                       \o [ i \in 1..Len(prompts) |->
                              ConversationEntry("agent", prompts[i].question, NoMetadata) ] ]

_handle_generate_refinement_questions(s, output, t) ==
    LET prompts == [ i \in 1..Len(output.questions) |->
                       RefinementPrompt(output.questions[i].question, output.questions[i].intent) ]
        agent_message == IF output.ai_response # <<>> THEN output.ai_response
                         ELSE DefaultQuestionsMessage
    IN  [ s EXCEPT !.working.refinement_questions = prompts,
                   !.workflow.questions_asked = @ + Len(prompts),
                   !.workflow.phase = IF prompts # <<>> THEN "awaiting_user_response"
                                      ELSE "check_approval",
                   !.workflow.last_transition_at = t,
                   !.working.conversation_log =
                       Append(@, AgentEntry(agent_message, "generate_refinement_questions"))
                       \o [ i \in 1..Len(prompts) |->
                              ConversationEntry("agent", prompts[i].question, NoMetadata) ] ]

\* one pass of the loop body of _apply_sub_item_updates over `change`
ApplySubItemChange(parent_id, sub_items, change) ==
    IF change.action = "add" THEN
        IF ~Truthy(change.summary) THEN sub_items
        ELSE LET new_id == IF IdTruthy(change.sub_item_id)
                           THEN Get(change.sub_item_id)
                           ELSE _next_sub_item_id(parent_id, Ids(sub_items, SubKey))
             IN  Append(sub_items,
                        ChecklistSubItem(new_id, Get(change.summary), change.detail,
                                         change.success_criteria))
    ELSE IF change.action = "remove" /\ change.sub_item_id # None
            /\ Get(change.sub_item_id) \in Ids(sub_items, SubKey) THEN
        Without(sub_items, SubKey, Get(change.sub_item_id))
    ELSE IF change.action = "update" /\ change.sub_item_id # None
            /\ Get(change.sub_item_id) \in Ids(sub_items, SubKey) THEN
        LET k == LastIndex(sub_items, SubKey, Get(change.sub_item_id)) IN
        [ sub_items EXCEPT ![k].summary = OrText(change.summary, @),
                           ![k].detail = OrElse(change.detail, @),
                           ![k].success_criteria = OrElse(change.success_criteria, @) ]
    ELSE sub_items

RECURSIVE ApplySubItemChanges(_, _, _)
ApplySubItemChanges(parent_id, sub_items, updates) ==
    IF updates = <<>> THEN sub_items
    ELSE ApplySubItemChanges(parent_id,
                             ApplySubItemChange(parent_id, sub_items, Head(updates)),
                             Tail(updates))

\* the item after _apply_sub_item_updates(item, updates)
_apply_sub_item_updates(item, updates) ==
    IF updates = <<>> THEN item
    ELSE [ item EXCEPT !.sub_items = ApplySubItemChanges(item.item_id, item.sub_items, updates) ]

\* the loop body with an update of an unknown id treated as an add (an upsert)
ApplyRefinementUpdate_upserting(items, update) ==
    IF update.action = "add" THEN
        IF ~Truthy(update.summary) THEN items
        ELSE LET new_id == IF IdTruthy(update.item_id)
                           THEN Get(update.item_id)
                           ELSE _next_item_id(Ids(items, ItemKey))
                 new_item == ChecklistItem(new_id, Get(update.summary), update.detail,
                                           update.success_criteria,
                                           _build_sub_items_from_bullets(new_id, update.sub_items))
             IN  Append(items,
                        IF update.sub_item_updates # <<>>
                        THEN _apply_sub_item_updates(new_item, update.sub_item_updates)
                        ELSE new_item)
    ELSE IF update.action = "remove" /\ IdTruthy(update.item_id)
            /\ Get(update.item_id) \in Ids(items, ItemKey) THEN
        Without(items, ItemKey, Get(update.item_id))
    ELSE IF update.action = "update" /\ IdTruthy(update.item_id)
            /\ Get(update.item_id) \in Ids(items, ItemKey) THEN
        LET k == LastIndex(items, ItemKey, Get(update.item_id))
            item == items[k]
            edited == [ item EXCEPT !.summary = OrText(update.summary, @),
                                    !.detail = OrElse(update.detail, @),
                                    !.success_criteria = OrElse(update.success_criteria, @),
                                    !.sub_items =
                                        IF update.sub_items # <<>>
                                        THEN _build_sub_items_from_bullets(item.item_id,
                                                                           update.sub_items)
                                        ELSE @ ]
        IN  [ items EXCEPT ![k] = _apply_sub_item_updates(edited, update.sub_item_updates) ]
    ELSE IF update.action = "update" /\ IdTruthy(update.item_id) /\ Truthy(update.summary) THEN
        Append(items, ChecklistItem(Get(update.item_id), Get(update.summary), update.detail,
                                    update.success_criteria, <<>>))
    ELSE items

\* one pass of the loop body of _handle_incorporate_refinements over `update`
ApplyRefinementUpdate(items, update) ==
    IF update.action = "add" THEN
        IF ~Truthy(update.summary) THEN items
        ELSE LET new_id == IF IdTruthy(update.item_id)
                           THEN Get(update.item_id)
                           ELSE _next_item_id(Ids(items, ItemKey))
                 new_item == ChecklistItem(new_id, Get(update.summary), update.detail,
                                           update.success_criteria,
                                           _build_sub_items_from_bullets(new_id, update.sub_items))
             IN  Append(items,
                        IF update.sub_item_updates # <<>>
                        THEN _apply_sub_item_updates(new_item, update.sub_item_updates)
                        ELSE new_item)
    ELSE IF update.action = "remove" /\ IdTruthy(update.item_id)
            /\ Get(update.item_id) \in Ids(items, ItemKey) THEN
        Without(items, ItemKey, Get(update.item_id))
    ELSE IF update.action = "update" /\ IdTruthy(update.item_id)
            /\ Get(update.item_id) \in Ids(items, ItemKey) THEN
        LET k == LastIndex(items, ItemKey, Get(update.item_id))
            item == items[k]
            edited == [ item EXCEPT !.summary = OrText(update.summary, @),
                                    !.detail = OrElse(update.detail, @),
                                    !.success_criteria = OrElse(update.success_criteria, @),
                                    !.sub_items =
                                        IF update.sub_items # <<>>
                                        THEN _build_sub_items_from_bullets(item.item_id,
                                                                           update.sub_items)
                                        ELSE @ ]
        IN  [ items EXCEPT ![k] = _apply_sub_item_updates(edited, update.sub_item_updates) ]
    ELSE items

RECURSIVE ApplyRefinementUpdates(_, _)
ApplyRefinementUpdates(items, updates) ==
    IF updates = <<>> THEN items
    ELSE ApplyRefinementUpdates(ApplyRefinementUpdate(items, Head(updates)), Tail(updates))

\* _handle_incorporate_refinements keeping the exchanges of this round only
_handle_incorporate_refinements_replacing_exchanges(s, output, t) ==
    LET answer_text == OrText(s.working.latest_user_message, <<>>)
        prompts == s.working.refinement_questions
    IN  [ s EXCEPT !.working.checklist_items = ApplyRefinementUpdates(@, output.updates),
                   !.working.refinement_exchanges =
                       [ i \in 1..Len(prompts) |->
                           RefinementExchange(prompts[i].question, prompts[i].intent,
                                              answer_text) ],
                   !.working.refinement_questions = <<>>,
                   !.working.latest_user_message = None,
                   !.workflow.phase = "check_approval",
                   !.workflow.last_transition_at = t,
                   !.working.conversation_log =
                       Append(@, AgentEntry(output.ai_response, "incorporate_refinements")) ]

_handle_incorporate_refinements(s, output, t) ==
    LET answer_text == OrText(s.working.latest_user_message, <<>>)
        prompts == s.working.refinement_questions
    IN  [ s EXCEPT !.working.checklist_items = ApplyRefinementUpdates(@, output.updates),
                   !.working.refinement_exchanges =
                       @ \o [ i \in 1..Len(prompts) |->
                                RefinementExchange(prompts[i].question, prompts[i].intent,
                                                   answer_text) ],
                   !.working.refinement_questions = <<>>,
                   !.working.latest_user_message = None,
                   !.workflow.phase = "check_approval",
                   !.workflow.last_transition_at = t,
                   !.working.conversation_log =
                       Append(@, AgentEntry(output.ai_response, "incorporate_refinements")) ]

\* dict[key] = value on an insertion-ordered dict held as a sequence of pairs
DictSet(d, key, value) ==
    IF \E i \in 1..Len(d) : d[i][1] = key
    THEN [ i \in 1..Len(d) |-> IF d[i][1] = key THEN <<key, value>> ELSE d[i] ]
    ELSE Append(d, <<key, value>>)

DictKeys(d) == [ i \in 1..Len(d) |-> d[i][1] ]

ProgressLogEntry(user_text, referenced, transitions, sub_transitions, notes) ==
    [ user_text |-> user_text, referenced_item_ids |-> referenced,
      status_transitions |-> transitions, sub_status_transitions |-> sub_transitions,
      contextual_notes |-> notes ]

\* the status and notes of an item or sub-item after one reference by `signal`
Signalled(x, signal) ==
    [ x EXCEPT !.status = IF signal.new_status # None /\ @ # Get(signal.new_status)
                          THEN Get(signal.new_status) ELSE @,
               !.notes = IF Truthy(signal.note) THEN Append(@, Get(signal.note)) ELSE @ ]

\* for item_id in signal.item_ids: the items and transition_map afterwards
RECURSIVE SignalItems(_, _, _, _)
SignalItems(items, transition_map, item_ids, signal) ==
    IF item_ids = <<>> THEN [ items |-> items, map |-> transition_map ]
    ELSE LET item_id == Head(item_ids) IN
         IF item_id \notin Ids(items, ItemKey)
         THEN SignalItems(items, transition_map, Tail(item_ids), signal)
         ELSE LET k == LastIndex(items, ItemKey, item_id)
                  item == Signalled(items[k], signal)
              IN  SignalItems([ items EXCEPT ![k] = item ],
                              DictSet(transition_map, item_id, item.status),
                              Tail(item_ids), signal)

\* where sub_items_by_id[sub_item_id] lives: the last sub-item with that id, in
\* the order of the items and of their sub-items
SubPositions(items, sub_item_id) ==
    { <<i, j>> \in (1..Len(items)) \X (1..Max({0} \cup { Len(items[k].sub_items) : k \in 1..Len(items) })) :
        j <= Len(items[i].sub_items) /\ items[i].sub_items[j].sub_item_id = sub_item_id }

LastSubPosition(items, sub_item_id) ==
    CHOOSE p \in SubPositions(items, sub_item_id) :
        \A q \in SubPositions(items, sub_item_id) :
            q[1] < p[1] \/ (q[1] = p[1] /\ q[2] <= p[2])

\* for sub_item_id in signal.sub_item_ids: the items and sub_transition_map afterwards
RECURSIVE SignalSubItems(_, _, _, _)
SignalSubItems(items, sub_transition_map, sub_item_ids, signal) ==
    IF sub_item_ids = <<>> THEN [ items |-> items, map |-> sub_transition_map ]
    ELSE LET sub_item_id == Head(sub_item_ids) IN
         IF SubPositions(items, sub_item_id) = {}
         THEN SignalSubItems(items, sub_transition_map, Tail(sub_item_ids), signal)
         ELSE LET p == LastSubPosition(items, sub_item_id)
                  sub_item == Signalled(items[p[1]].sub_items[p[2]], signal)
              IN  SignalSubItems([ items EXCEPT ![p[1]].sub_items[p[2]] = sub_item ],
                                 DictSet(sub_transition_map, sub_item_id, sub_item.status),
                                 Tail(sub_item_ids), signal)

\* for signal in output.signals: the items and the progress log afterwards
RECURSIVE ApplySignals(_, _, _, _)
ApplySignals(items, progress_log, signals, user_text) ==
    IF signals = <<>> THEN [ items |-> items, progress_log |-> progress_log ]
    ELSE LET signal == Head(signals)
             a == SignalItems(items, <<>>, signal.item_ids, signal)
             b == SignalSubItems(a.items, <<>>, signal.sub_item_ids, signal)
             log == IF a.map # <<>>
                    THEN Append(progress_log,
                                ProgressLogEntry(user_text, DictKeys(a.map), a.map, b.map,
                                                 signal.context))
                    ELSE IF b.map # <<>>
                    THEN Append(progress_log,
                                ProgressLogEntry(user_text, <<>>, <<>>, b.map, signal.context))
                    ELSE progress_log
         IN  ApplySignals(b.items, log, Tail(signals), user_text)

\* _handle_interpret_progress_update deciding the phase on the checklist as it
\* was before the signals
_handle_interpret_progress_update_testing_input(s, output, t) ==
    LET r == ApplySignals(s.working.checklist_items, s.working.progress_log, output.signals,
                          OrText(s.working.latest_user_message, <<>>))
        logged == [ s EXCEPT !.working.checklist_items = r.items,
                             !.working.progress_log = r.progress_log,
                             !.working.conversation_log =
                                 Append(@, AgentEntry(output.ai_response,
                                                      "interpret_progress_update")) ]
    IN  IF output.needs_clarification
        THEN [ logged EXCEPT !.workflow.awaiting_clarification = TRUE,
                             !.workflow.phase = "asking_clarification",
                             !.working.clarification_prompt = output.clarification_prompt,
                             !.workflow.last_transition_at = t ]
        ELSE [ logged EXCEPT !.workflow.awaiting_clarification = FALSE,
                             !.working.clarification_prompt = None,
                             !.workflow.phase = IF checklist_is_complete(s)
                                                THEN "generating_summary"
                                                ELSE "acknowledging_progress",
                             !.workflow.last_transition_at = t ]

_handle_interpret_progress_update(s, output, t) ==
    LET r == ApplySignals(s.working.checklist_items, s.working.progress_log, output.signals,
                          OrText(s.working.latest_user_message, <<>>))
        logged == [ s EXCEPT !.working.checklist_items = r.items,
                             !.working.progress_log = r.progress_log,
                             !.working.conversation_log =
                                 Append(@, AgentEntry(output.ai_response,
                                                      "interpret_progress_update")) ]
    IN  IF output.needs_clarification
        THEN [ logged EXCEPT !.workflow.awaiting_clarification = TRUE,
                             !.workflow.phase = "asking_clarification",
                             !.working.clarification_prompt = output.clarification_prompt,
                             !.workflow.last_transition_at = t ]
        ELSE [ logged EXCEPT !.workflow.awaiting_clarification = FALSE,
                             !.working.clarification_prompt = None,
                             !.workflow.phase = IF checklist_is_complete(logged)
                                                THEN "generating_summary"
                                                ELSE "acknowledging_progress",
                             !.workflow.last_transition_at = t ]

\* _handle_completion_summary leaving the phase as it is
_handle_completion_summary_keeping_phase(s, output, t) ==
    [ s EXCEPT !.working.completion_summary = Some(output.ai_response),
               !.workflow.last_transition_at = t,
               !.working.conversation_log =
                   Append(@, AgentEntry(output.ai_response, "generate_completion_summary")) ]

_handle_completion_summary(s, output, t) ==
    [ s EXCEPT !.working.completion_summary = Some(output.ai_response),
               !.workflow.phase = "presenting_summary",
               !.workflow.last_transition_at = t,
               !.working.conversation_log =
                   Append(@, AgentEntry(output.ai_response, "generate_completion_summary")) ]

\* a dispatch table that lacks the handler of the summary skill
_SKILL_HANDLERS_without_summary ==
    { "generate_initial_checklist", "generate_refinement_questions",
      "incorporate_refinements", "interpret_progress_update" }

\* the keys of _SKILL_HANDLERS
_SKILL_HANDLERS ==
    { "generate_initial_checklist", "generate_refinement_questions",
      "incorporate_refinements", "interpret_progress_update",
      "generate_completion_summary" }

\* _SKILL_HANDLERS[skill_name](s, output)
Handle(skill_name, s, output, t) ==
    CASE skill_name = "generate_initial_checklist" ->
             _handle_generate_initial_checklist(s, output, t)
      [] skill_name = "generate_refinement_questions" ->
             _handle_generate_refinement_questions(s, output, t)
      [] skill_name = "incorporate_refinements" ->
             _handle_incorporate_refinements(s, output, t)
      [] skill_name = "interpret_progress_update" ->
             _handle_interpret_progress_update(s, output, t)
      [] skill_name = "generate_completion_summary" ->
             _handle_completion_summary(s, output, t)

\* raised = NoError and the new state, or the exception and no state
update_state_from_skill(s, skill_name, output, t) ==
    IF skill_name \notin _SKILL_HANDLERS
    THEN [ raised |-> "ValueError: No handler registered for skill", value |-> None ]
    ELSE [ raised |-> NoError, value |-> Handle(skill_name, s, output, t) ]

\* the keys of _SKILL_DEFINITIONS
_SKILL_DEFINITIONS ==
    { "generate_initial_checklist", "generate_refinement_questions",
      "incorporate_refinements", "interpret_progress_update",
      "generate_completion_summary" }

----------------------------------------------------------------------------
(* Inputs: what callers type and what the structured-generation call       *)
(* returns (llm/client.py validates only the shape of these).              *)

\* user text typed for an entry point: empty, blank, and padded or plain text
TextInputs(c) == { <<>>, <<SP>>, <<SP, SP>>, <<c>>, <<SP, c, SP>> }

\* bullets of a generated checklist, sub-bullets of a bullet
MaxItems == 2
MaxSubs == 2
\* questions of one generate_refinement_questions result
MaxQuestions == 3

SeqsUpTo(S, n) == UNION { [1..k -> S] : k \in 0..n }

SubBullet(summary) == [ summary |-> summary, detail |-> None, success_criteria |-> None ]

Bullet(summary, subs) ==
    [ summary |-> summary, detail |-> None, success_criteria |-> None, sub_items |-> subs ]

Bullets == { Bullet(<<"s">>, [ j \in 1..m |-> SubBullet(<<"ss">>) ]) : m \in 0..MaxSubs }

InitialOutputs ==
    { [ ai_response |-> <<"r">>, items |-> its ] : its \in SeqsUpTo(Bullets, MaxItems) }

Question(i) == [ question |-> <<"q", Str(i)>>, intent |-> <<"i", Str(i)>> ]

QuestionOutputs ==
    { [ ai_response |-> r, questions |-> [ i \in 1..n |-> Question(i) ] ] :
        r \in { <<>>, <<"r">> }, n \in 0..MaxQuestions }

SubUpdate(action, id, summary) ==
    [ action |-> action, sub_item_id |-> id, summary |-> summary,
      detail |-> None, success_criteria |-> None ]

Update(action, id, summary, subs, sub_updates) ==
    [ action |-> action, item_id |-> id, summary |-> summary, detail |-> None,
      success_criteria |-> None, sub_items |-> subs, sub_item_updates |-> sub_updates ]

RefineOutput(updates) == [ ai_response |-> <<"r">>, updates |-> updates ]

\* the outputs the workflow specification draws for incorporate_refinements
FlowUpdates ==
    { Update("add", None, Some(<<"n">>), <<>>, <<>>),
      Update("add", Some(ItemId(1)), Some(<<"n">>), <<>>, <<>>),
      Update("remove", Some(ItemId(1)), None, <<>>, <<>>),
      Update("update", Some(ItemId(1)), Some(<<"u">>), <<>>,
             << SubUpdate("add", None, Some(<<"n">>)) >>),
      Update("update", Some(ItemId(1)), None, << SubBullet(<<"c">>) >>, <<>>) }

FlowRefineOutputs == { RefineOutput(us) : us \in SeqsUpTo(FlowUpdates, 1) }

Signal(item_ids, sub_item_ids, new_status, note) ==
    [ item_ids |-> item_ids, sub_item_ids |-> sub_item_ids, new_status |-> new_status,
      note |-> note, context |-> None ]

ProgressOutput(signals, clarify) ==
    [ ai_response |-> <<"r">>, signals |-> signals, needs_clarification |-> clarify,
      clarification_prompt |-> IF clarify THEN Some(<<"c">>) ELSE None ]

\* the outputs the workflow specification draws for interpret_progress_update
FlowSignals ==
    { Signal(<<ItemId(1)>>, <<>>, Some("complete"), None),
      Signal(<<ItemId(1), ItemId(2)>>, <<SubItemId(ItemId(1), 1)>>, Some("complete"), None),
      Signal(<<>>, <<SubItemId(ItemId(1), 1), SubItemId(ItemId(1), 2)>>, Some("complete"), None),
      Signal(<<ItemId(2)>>, <<>>, Some("in_progress"), None) }

FlowProgressOutputs ==
    { ProgressOutput(sg, c) : sg \in SeqsUpTo(FlowSignals, 1), c \in BOOLEAN }

SummaryOutputs == { [ ai_response |-> <<"r">> ] }

----------------------------------------------------------------------------
(* app.py: the ChecklistAgent entry points, as actions.                    *)
(* An operation reads the clock once: `now` does not advance inside it.    *)

NoArg == <<>>

\* one agent: its state is `state`, and no object store is kept
NoHeap == <<>>
NoDecision == [ decision_type |-> "None", skill |-> NoSkill, reason |-> "" ]

\* operation `op` called with `arg` on the current state
Called(op, arg) ==
    /\ pre' = state
    /\ last' = [ op |-> op, arg |-> arg ]
    /\ now' = now
    /\ heap' = heap

\* self._swap_state(s2), and a normal return
Swap(s2) ==
    /\ state' = s2
    /\ err' = NoError

\* a normal return without a swap
Return ==
    /\ state' = state
    /\ err' = NoError

\* an exception `e` raised before any swap
Raise(e) ==
    /\ state' = state
    /\ err' = e

IngestDescription ==
    \E d \in TextInputs("d") :
        /\ Called("ingest_description", d)
        /\ Swap(ingest_user_description(state, d, now))
        /\ decision' = NoDecision

RecordRefinementFeedback ==
    \E f \in TextInputs("f") :
        /\ Called("record_refinement_feedback", f)
        /\ Swap(record_user_feedback(state, f, now))
        /\ decision' = NoDecision

ApproveChecklist ==
    /\ Called("approve_checklist", NoArg)
    /\ Swap(mark_checklist_approved(state, now))
    /\ decision' = NoDecision

RequestMoreChanges ==
    \E r \in TextInputs("c") :
        /\ Called("request_more_changes", r)
        /\ Swap(mark_checklist_rejected(state, r, now))
        /\ decision' = NoDecision

StartTracking ==
    /\ Called("start_tracking", NoArg)
    /\ Swap(activate_tracking_mode(state, now))
    /\ decision' = NoDecision

IngestProgressUpdate ==
    \E u \in TextInputs("p") :
        /\ Called("ingest_progress_update", u)
        /\ Swap(ingest_progress_input(state, u, now))
        /\ decision' = NoDecision

AcknowledgeProgress ==
    /\ Called("acknowledge_progress", NoArg)
    /\ Swap(acknowledge_progress_ack(state, now))
    /\ decision' = NoDecision

AcknowledgeSummary ==
    /\ Called("acknowledge_summary", NoArg)
    /\ Swap(acknowledge_summary_delivery(state, now))
    /\ decision' = NoDecision

\* ChecklistRepository.save: the path of the file written at time t
SavedPath(t) == << "storage/checklists/checklist_", Str(t), ".json" >>

\* what ChecklistRepository.save does: it returns the path, or the file system fails
SaveOutcomes == { "saved", "OSError" }

\* save_checklist: build_artifact, repository.save, then the two swaps
SaveChecklist ==
    \E outcome \in SaveOutcomes :
        LET artifact == build_artifact(state, now) IN
        /\ Called("save_checklist", outcome)
        /\ decision' = NoDecision
        /\ IF artifact.raised # NoError THEN Raise(artifact.raised)
           ELSE IF outcome # "saved" THEN Raise(outcome)
           ELSE Swap(activate_tracking_mode(
                         record_save_result(state, artifact.value, SavedPath(now), now), now))

\* state_manager.record_save_result applied on its own, to the artifact of
\* the state and a path
RecordSaveResult ==
    LET artifact == build_artifact(state, now) IN
    /\ artifact.raised = NoError
    /\ \E file_path \in { SavedPath(now), <<"out.json">> } :
          /\ Called("record_save_result", file_path)
          /\ Swap(record_save_result(state, artifact.value, file_path, now))
          /\ decision' = NoDecision

NextDecision ==
    /\ Called("next_decision", NoArg)
    /\ decision' = next_action(state)
    /\ Return

\* LLMClient.invoke: the call fails, or the response does not validate
LLMCallErrors ==
    { "LLMCallError: Failed to execute LLM call",
      "LLMCallError: LLM response failed schema validation" }

\* what Executor.run_skill does for `skill`: get_skill_definition raises, or the
\* call fails (LLMCallError), or it returns an output of the skill's schema
RunSkillOutcomes(skill, outputs) ==
    IF skill \notin _SKILL_DEFINITIONS
    THEN { [ raised |-> "KeyError: Skill definition not found", value |-> None ] }
    ELSE { [ raised |-> e, value |-> None ] : e \in LLMCallErrors }
         \cup { [ raised |-> NoError, value |-> o ] : o \in outputs[skill] }

\* run_planned_action swapping in an idle state when the skill call fails
RunPlannedAction_resetting_on_failure(outputs) ==
    LET d == next_action(state) IN
    /\ decision' = d
    /\ IF d.decision_type = "llm_skill" /\ d.skill # NoSkill
       THEN \E output \in RunSkillOutcomes(d.skill, outputs) :
               /\ Called("run_planned_action", output)
               /\ IF output.raised # NoError
                  THEN /\ state' = [ state EXCEPT !.workflow.phase = "idle" ]
                       /\ err' = output.raised
                  ELSE LET r == update_state_from_skill(state, d.skill, output.value, now) IN
                       IF r.raised # NoError THEN Raise(r.raised) ELSE Swap(r.value)
       ELSE /\ Called("run_planned_action", NoArg)
            /\ Return

\* run_planned_action: next_decision, Executor.run_skill, dispatch, swap
RunPlannedAction(outputs) ==
    LET d == next_action(state) IN
    /\ decision' = d
    /\ IF d.decision_type = "llm_skill" /\ d.skill # NoSkill
       THEN \E output \in RunSkillOutcomes(d.skill, outputs) :
               /\ Called("run_planned_action", output)
               /\ IF output.raised # NoError THEN Raise(output.raised)
                  ELSE LET r == update_state_from_skill(state, d.skill, output.value, now) IN
                       IF r.raised # NoError THEN Raise(r.raised) ELSE Swap(r.value)
       ELSE /\ Called("run_planned_action", NoArg)
            /\ Return

----------------------------------------------------------------------------
(* memory/state_manager.py called directly on the state the caller holds   *)

\* a skill name that is not a key of _SKILL_HANDLERS
UnregisteredSkills == { "summarize_risks" }

UpdateStateFromSkill(outputs) ==
    \E skill_name \in SkillName \cup UnregisteredSkills :
        \E output \in outputs[skill_name] :
            LET r == update_state_from_skill(state, skill_name, output, now) IN
            /\ Called("update_state_from_skill", [ skill_name |-> skill_name, output |-> output ])
            /\ decision' = NoDecision
            /\ IF r.raised # NoError THEN Raise(r.raised) ELSE Swap(r.value)

----------------------------------------------------------------------------
(* States of a session: each is built from create_initial_state by the     *)
(* operations above, in the order a session calls them.                    *)

\* three generated checklists: none, one item, MaxItems items the first with sub-items
SeedBullets ==
    { <<>>,
      << Bullet(<<"s">>, <<>>) >>,
      [ i \in 1..MaxItems |->
          Bullet(<<"s">>, IF i = 1 THEN [ j \in 1..MaxSubs |-> SubBullet(<<"ss">>) ] ELSE <<>>) ] }

SeedQuestions == { [ ai_response |-> <<"r">>, questions |-> [ i \in 1..n |-> Question(i) ] ] :
                     n \in {0, 2} }

\* a progress report naming every item and sub-item of a seed checklist
AllIds == [ i \in 1..MaxItems |-> ItemId(i) ]
AllSubIds == [ j \in 1..MaxSubs |-> SubItemId(ItemId(1), j) ]

SeedProgress ==
    { ProgressOutput(<< Signal(AllIds, AllSubIds, Some("complete"), Some(<<"n">>)) >>, FALSE),
      ProgressOutput(<< Signal(<<ItemId(1)>>, <<>>, Some("in_progress"), None) >>, FALSE),
      ProgressOutput(<<>>, TRUE) }

Fresh == create_initial_state(0)

Described == { ingest_user_description(Fresh, <<"d">>, 0) }

Listed ==
    { _handle_generate_initial_checklist(s, [ ai_response |-> <<"r">>, items |-> b ], 0) :
        s \in Described, b \in SeedBullets }

\* a second description while a checklist exists
Redescribed == { ingest_user_description(s, <<"e">>, 0) : s \in Listed }

Asked == { _handle_generate_refinement_questions(s, q, 0) : s \in Listed, q \in SeedQuestions }

Answered == { record_user_feedback(s, <<"f">>, 0) : s \in Asked }

Refined == { _handle_incorporate_refinements(s, RefineOutput(<<>>), 0) : s \in Answered }

\* request_more_changes after a revision, or while questions are pending
Rejected == { mark_checklist_rejected(s, <<"c">>, 0) : s \in Refined \cup Asked }

Approved ==
    { mark_checklist_approved(s, 0) : s \in { r \in Refined : r.working.refinement_exchanges # <<>> } }

Saved ==
    { activate_tracking_mode(
          record_save_result(s, build_artifact(s, 0).value, SavedPath(0), 0), 0) : s \in Approved }

Reported == { ingest_progress_input(s, <<"p">>, 0) : s \in Saved }

Interpreted ==
    { _handle_interpret_progress_update(s, o, 0) : s \in Reported, o \in SeedProgress }

Acknowledged ==
    { acknowledge_progress_ack(s, 0) :
        s \in { i \in Interpreted : i.workflow.phase = "acknowledging_progress" } }

Summarised ==
    { _handle_completion_summary(s, [ ai_response |-> <<"r">> ], 0) :
        s \in { i \in Interpreted : i.workflow.phase = "generating_summary" } }

Completed == { acknowledge_summary_delivery(s, 0) : s \in Summarised }

\* approve_checklist on a new agent: a save is pending and nothing was described
Unprepared == { mark_checklist_approved(Fresh, 0) }

SessionStates ==
    {Fresh} \cup Described \cup Listed \cup Redescribed \cup Asked \cup Answered \cup Refined \cup Rejected
    \cup Approved \cup Saved \cup Reported \cup Interpreted \cup Acknowledged
    \cup Summarised \cup Completed \cup Unprepared

Drawn == last.op = "draw"

DrawInit(S) ==
    /\ state \in S
    /\ pre = state
    /\ last = [ op |-> "draw", arg |-> NoArg ]
    /\ decision = NoDecision
    /\ err = NoError
    /\ now \in 0..MaxTime
    /\ heap = NoHeap

----------------------------------------------------------------------------
(* CoordSpec: Coordinator.next_action applied to one state, of any phase   *)
(* and any questions_asked, with the memory of a session state.            *)

\* largest questions_asked drawn
MaxAsked == 4

CoordStates ==
    { [ s EXCEPT !.workflow.phase = p, !.workflow.questions_asked = q ] :
        s \in {Fresh} \cup Listed \cup Answered \cup Saved \cup Summarised,
        p \in WorkflowPhase, q \in 0..MaxAsked }

CoordInit == DrawInit(CoordStates)

CoordNext == Drawn /\ NextDecision

CoordSpec == CoordInit /\ [][CoordNext]_vars

----------------------------------------------------------------------------
(* Spec: one operation, any entry point of the agent or any dispatch       *)
(* through update_state_from_skill, applied to one session state.          *)

StepOutputs ==
    [ skill \in SkillName \cup UnregisteredSkills |->
        CASE skill = "generate_initial_checklist" -> InitialOutputs
          [] skill = "generate_refinement_questions" -> QuestionOutputs
          [] skill = "incorporate_refinements" -> FlowRefineOutputs
          [] skill = "interpret_progress_update" -> FlowProgressOutputs
          [] skill = "generate_completion_summary" -> SummaryOutputs
          [] OTHER -> SummaryOutputs ]

Init == DrawInit(SessionStates)

Next ==
    \/ Drawn /\ IngestDescription
    \/ Drawn /\ RecordRefinementFeedback
    \/ Drawn /\ ApproveChecklist
    \/ Drawn /\ RequestMoreChanges
    \/ Drawn /\ StartTracking
    \/ Drawn /\ IngestProgressUpdate
    \/ Drawn /\ AcknowledgeProgress
    \/ Drawn /\ AcknowledgeSummary
    \/ Drawn /\ SaveChecklist
    \/ Drawn /\ RecordSaveResult
    \/ Drawn /\ NextDecision
    \/ Drawn /\ RunPlannedAction(StepOutputs)
    \/ Drawn /\ UpdateStateFromSkill(StepOutputs)

Spec == Init /\ [][Next]_vars

----------------------------------------------------------------------------
(* Claims about the Coordinator (CoordSpec)                                *)

\* the phases that request a skill, and the skill each requests
SkillOfPhase ==
    [ generating_checklist        |-> "generate_initial_checklist",
      asking_refinement_questions |-> "generate_refinement_questions",
      processing_feedback         |-> "incorporate_refinements",
      interpreting_intent         |-> "interpret_progress_update",
      generating_summary          |-> "generate_completion_summary" ]

Decided == last.op = "next_decision"

UnderCeiling(s) == s.workflow.questions_asked < s.workflow.max_refinement_questions

\* C1: next_action is exhaustive over the 23 phases: the decision is llm_skill
\* with the phase's own skill for generating_checklist, asking_refinement_questions
\* under the ceiling, processing_feedback, interpreting_intent and
\* generating_summary, and noop (never tool or complete) for every other phase.
C1_CoordinatorMapping ==
    /\ Cardinality(WorkflowPhase) = 23
    /\ Decided =>
         LET p == pre.workflow.phase
             requests == p \in DOMAIN SkillOfPhase
                         /\ (p = "asking_refinement_questions" => UnderCeiling(pre))
         IN  /\ requests => decision.decision_type = "llm_skill"
                            /\ decision.skill = SkillOfPhase[p]
             /\ ~requests => decision.decision_type = "noop" /\ decision.skill = NoSkill

\* C1 witness: the summary phase was decided on and its skill requested
C1_Witness ==
    /\ Decided
    /\ pre.workflow.phase = "generating_summary"
    /\ decision.skill = "generate_completion_summary"

\* C2: in asking_refinement_questions, next_action returns noop whenever
\* questions_asked >= max_refinement_questions, whatever the checklist and the
\* other fields hold, and the generate_refinement_questions skill only when
\* questions_asked < max_refinement_questions.
C2_QuestionCeiling ==
    (Decided /\ pre.workflow.phase = "asking_refinement_questions") =>
        /\ ~UnderCeiling(pre) => decision.decision_type = "noop"
        /\ decision.decision_type # "noop" =>
               /\ UnderCeiling(pre)
               /\ decision = DecisionLlm("generate_refinement_questions", decision.reason)

\* C2 witness: exactly at the ceiling, with a non-empty checklist, the decision is noop
C2_Witness ==
    /\ Decided
    /\ pre.workflow.phase = "asking_refinement_questions"
    /\ pre.workflow.questions_asked = pre.workflow.max_refinement_questions
    /\ pre.working.checklist_items # <<>>
    /\ decision.decision_type = "noop"

\* two states agree on what the Coordinator may read
SameRouting(s1, s2) ==
    /\ s1.workflow.phase = s2.workflow.phase
    /\ s1.workflow.phase = "asking_refinement_questions" => UnderCeiling(s1) = UnderCeiling(s2)

\* C3: next_action depends only on the phase and, in asking_refinement_questions,
\* on questions_asked versus max_refinement_questions: every state that agrees
\* with the decided one on these gets the same decision type and skill, whatever
\* its memory, flags and logs; and the call leaves the state unchanged.
C3_DecisionReadsOnlyRouting ==
    Decided =>
        /\ state = pre
        /\ \A s2 \in CoordStates :
              SameRouting(pre, s2) =>
                  /\ next_action(s2).decision_type = decision.decision_type
                  /\ next_action(s2).skill = decision.skill

\* C3 witness: a state with another memory and another count agrees on the routing
C3_Witness ==
    /\ Decided
    /\ pre.workflow.phase = "asking_refinement_questions"
    /\ decision.decision_type = "llm_skill"
    /\ \E s2 \in CoordStates :
          /\ SameRouting(pre, s2)
          /\ s2.working # pre.working
          /\ s2.workflow.questions_asked # pre.workflow.questions_asked

----------------------------------------------------------------------------
(* Claims about dispatch and the transitions (Spec)                        *)

UnregisteredSkillError == "ValueError: No handler registered for skill"

Ran == last.op = "run_planned_action"
Dispatched == last.op = "update_state_from_skill"

\* the state `s` moved to phase p
InPhase(s, p) == [ s EXCEPT !.workflow.phase = p ]

\* C4: every skill next_action can return, in any phase, has a handler in
\* _SKILL_HANDLERS and a definition in _SKILL_DEFINITIONS, so run_planned_action
\* never ends with the unregistered-skill error (nor with a missing definition);
\* the error is raised exactly when update_state_from_skill is given a skill
\* name without a handler, and then the state held is the one held before.
C4_NoUnregisteredSkill ==
    /\ \A p \in WorkflowPhase :
          LET d == next_action(InPhase(pre, p)) IN
          d.skill # NoSkill => d.skill \in _SKILL_HANDLERS \cap _SKILL_DEFINITIONS
    /\ Ran => /\ err # UnregisteredSkillError
              /\ err # "KeyError: Skill definition not found"
              /\ decision.skill # NoSkill => decision.skill \in _SKILL_HANDLERS
    /\ err = UnregisteredSkillError <=>
           (Dispatched /\ last.arg.skill_name \notin _SKILL_HANDLERS)
    /\ err = UnregisteredSkillError => state = pre

\* C4 witness: the summary skill was planned, run and dispatched to its handler,
\* which produced a new state
C4_Witness ==
    /\ Ran
    /\ decision.skill = "generate_completion_summary"
    /\ err = NoError
    /\ state # pre
    /\ state.workflow.phase = "presenting_summary"

\* C4 witness of the error case: a name without a handler was dispatched
C4_ErrorRaised ==
    /\ Dispatched
    /\ last.arg.skill_name \notin _SKILL_HANDLERS
    /\ err = UnregisteredSkillError
    /\ state = pre

IngestionOps == { "ingest_description", "record_refinement_feedback", "ingest_progress_update" }

\* a text of no characters or of whitespace only
Blank(text) == \A i \in 1..Len(text) : text[i] = SP

\* C5: ingest_user_description, record_user_feedback and ingest_progress_input
\* called with an empty or whitespace-only string return a state equal to the
\* input: phase, latest user message, original description, conversation log
\* and last_transition_at are unchanged, and so is every other field.
C5_BlankTextIsNoOp ==
    (last.op \in IngestionOps /\ Blank(last.arg)) =>
        /\ state = pre
        /\ state.workflow.phase = pre.workflow.phase
        /\ state.working.latest_user_message = pre.working.latest_user_message
        /\ state.working.original_description = pre.working.original_description
        /\ state.working.conversation_log = pre.working.conversation_log
        /\ state.workflow.last_transition_at = pre.workflow.last_transition_at
        /\ err = NoError

\* C5 witness: whitespace was given as feedback, at a later clock reading, to a
\* session that has a log and a pending message
C5_Witness ==
    /\ last.op = "record_refinement_feedback"
    /\ last.arg = <<SP, SP>>
    /\ now # pre.workflow.last_transition_at
    /\ pre.working.conversation_log # <<>>
    /\ pre.working.latest_user_message # None
    /\ state = pre

\* the three transitions do act on a text that is not blank
C5_NonBlankActs ==
    /\ last.op \in IngestionOps
    /\ ~Blank(last.arg)
    /\ state # pre

\* the skill whose handler produced the state held, if one did, and its output
AppliedSkill ==
    IF Dispatched /\ err = NoError THEN last.arg.skill_name
    ELSE IF Ran /\ err = NoError THEN decision.skill
    ELSE NoSkill

AppliedOutput == IF Dispatched THEN last.arg.output ELSE last.arg.value

\* "item-k" and "item-k-j"
ItemName(k) == << "item", DecimalDigits[k] >>
SubItemName(k, j) == << "item", DecimalDigits[k], DecimalDigits[j] >>

\* C6: the initial-checklist result with n bullets, applied to any state, yields
\* exactly n items item-1..item-n in bullet order, each pending and carrying its
\* bullet's summary; item k with m sub-bullets has sub-items item-k-1..item-k-m
\* in order; questions_asked is 0 and the phase is asking_refinement_questions,
\* whatever questions_asked and the checklist were before.
C6_InitialChecklist ==
    AppliedSkill = "generate_initial_checklist" =>
        LET bullets == AppliedOutput.items
            items == state.working.checklist_items
        IN  /\ Len(items) = Len(bullets)
            /\ \A k \in 1..Len(bullets) :
                  /\ items[k].item_id = ItemName(k)
                  /\ items[k].status = "pending"
                  /\ items[k].summary = bullets[k].summary
                  /\ Len(items[k].sub_items) = Len(bullets[k].sub_items)
                  /\ \A j \in 1..Len(bullets[k].sub_items) :
                        /\ items[k].sub_items[j].sub_item_id = SubItemName(k, j)
                        /\ items[k].sub_items[j].status = "pending"
                        /\ items[k].sub_items[j].summary = bullets[k].sub_items[j].summary
            /\ state.workflow.questions_asked = 0
            /\ state.workflow.phase = "asking_refinement_questions"

\* C6 witness: two bullets, the second with two sub-bullets, applied to a state
\* that had questions asked, a one-item checklist and a completed item
C6_Witness ==
    /\ AppliedSkill = "generate_initial_checklist"
    /\ Len(AppliedOutput.items) = 2
    /\ Len(AppliedOutput.items[1].sub_items) = 0
    /\ Len(AppliedOutput.items[2].sub_items) = 2
    /\ pre.workflow.questions_asked > 0
    /\ pre.workflow.phase # "generating_checklist"
    /\ Len(pre.working.checklist_items) = 1
    /\ state.working.checklist_items[2].sub_items[2].sub_item_id = << "item", "2", "2" >>
    /\ state.workflow.questions_asked = 0

\* C6 through run_planned_action, from generating_checklist
C6_Planned ==
    /\ Ran
    /\ AppliedSkill = "generate_initial_checklist"
    /\ Len(state.working.checklist_items) = 2

\* C7: the refinement-questions result with N questions replaces the pending
\* prompts by exactly those N prompts in order, adds exactly N to
\* questions_asked, and sets the phase to awaiting_user_response when N > 0 and
\* to check_approval when N = 0.
C7_RefinementQuestions ==
    AppliedSkill = "generate_refinement_questions" =>
        LET questions == AppliedOutput.questions
            N == Len(questions)
            prompts == state.working.refinement_questions
        IN  /\ Len(prompts) = N
            /\ \A i \in 1..N : /\ prompts[i].question = questions[i].question
                               /\ prompts[i].intent = questions[i].intent
            /\ state.workflow.questions_asked = pre.workflow.questions_asked + N
            /\ N > 0 => state.workflow.phase = "awaiting_user_response"
            /\ N = 0 => state.workflow.phase = "check_approval"

\* C7 witness: three questions replaced two pending ones, after two were asked
C7_Witness ==
    /\ AppliedSkill = "generate_refinement_questions"
    /\ Len(AppliedOutput.questions) = 3
    /\ Len(pre.working.refinement_questions) = 2
    /\ pre.workflow.questions_asked = 2
    /\ state.workflow.questions_asked = 5
    /\ state.workflow.phase = "awaiting_user_response"

\* C7 with no question: straight to check_approval, the pending prompts dropped
C7_NoQuestion ==
    /\ AppliedSkill = "generate_refinement_questions"
    /\ AppliedOutput.questions = <<>>
    /\ pre.working.refinement_questions # <<>>
    /\ state.working.refinement_questions = <<>>
    /\ state.workflow.phase = "check_approval"

\* the exchanges the handler appended
NewExchanges ==
    SubSeq(state.working.refinement_exchanges,
           Len(pre.working.refinement_exchanges) + 1,
           Len(state.working.refinement_exchanges))

\* the exchanges are the old ones followed by one per pending prompt, in prompt
\* order, with the prompt's question and intent; the prompts and the latest
\* message are cleared and the phase is check_approval
ExchangesFollowPrompts ==
    LET prompts == pre.working.refinement_questions IN
    /\ SubSeq(state.working.refinement_exchanges, 1, Len(pre.working.refinement_exchanges))
           = pre.working.refinement_exchanges
    /\ Len(NewExchanges) = Len(prompts)
    /\ \A i \in 1..Len(prompts) :
          /\ NewExchanges[i].question = prompts[i].question
          /\ NewExchanges[i].intent = prompts[i].intent
    /\ state.working.refinement_questions = <<>>
    /\ state.working.latest_user_message = None
    /\ state.workflow.phase = "check_approval"

\* C10: the refinements-incorporated result appends, for every pending prompt
\* and in prompt order, one RefinementExchange with the prompt's question and
\* intent, whose answer is the latest user message; afterwards the pending
\* prompts are empty, the latest user message is cleared and the phase is
\* check_approval.
C10_AnswerIsLatestMessage ==
    AppliedSkill = "incorporate_refinements" =>
        /\ ExchangesFollowPrompts
        /\ \A i \in 1..Len(NewExchanges) :
              Some(NewExchanges[i].answer) = pre.working.latest_user_message

\* what the handler does: the answer is the latest user message when there is
\* one and the empty string when there is none (answer_text = ... or "")
C10_Exchanges ==
    AppliedSkill = "incorporate_refinements" =>
        /\ ExchangesFollowPrompts
        /\ \A i \in 1..Len(NewExchanges) :
              IF pre.working.latest_user_message = None
              THEN NewExchanges[i].answer = <<>>
              ELSE NewExchanges[i].answer = Get(pre.working.latest_user_message)

\* two pending prompts were answered by the feedback "f"
C10_Answered ==
    /\ Ran
    /\ AppliedSkill = "incorporate_refinements"
    /\ Len(pre.working.refinement_questions) = 2
    /\ pre.working.latest_user_message = Some(<<"f">>)
    /\ Len(NewExchanges) = 2
    /\ NewExchanges[2].question = pre.working.refinement_questions[2].question
    /\ NewExchanges[2].answer = <<"f">>
    /\ state.working.latest_user_message = None

\* request_more_changes while questions were pending, then the planned skill:
\* the prompts became exchanges with an empty answer
C10_EmptyAnswer ==
    /\ Ran
    /\ AppliedSkill = "incorporate_refinements"
    /\ pre.working.refinement_questions # <<>>
    /\ pre.working.latest_user_message = None
    /\ NewExchanges # <<>>
    /\ \A i \in 1..Len(NewExchanges) : NewExchanges[i].answer = <<>>

----------------------------------------------------------------------------
(* RefineSpec: run_planned_action in processing_feedback, the generation   *)
(* call returning any batch of at most MaxUpdates instructions, applied to *)
(* a checklist of 0..RefineItems items.                                    *)

\* longest batch of instructions in one result
MaxUpdates == 2

\* longest checklist the batch is applied to
RefineItems == 3

\* sessions waiting in processing_feedback: n items, the first with two sub-items
RefineStates ==
    { record_user_feedback(
          _handle_generate_refinement_questions(
              _handle_generate_initial_checklist(
                  ingest_user_description(Fresh, <<"d">>, 0),
                  [ ai_response |-> <<"r">>,
                    items |-> [ i \in 1..n |->
                                  Bullet(<<"s", Str(i)>>,
                                         IF i = 1 THEN << SubBullet(<<"a">>), SubBullet(<<"b">>) >>
                                         ELSE <<>>) ] ], 0),
              [ ai_response |-> <<"r">>, questions |-> << Question(1) >> ], 0),
          <<"f">>, 0) : n \in 0..RefineItems }

\* the instructions a batch is made of
RefineUpdates ==
    { \* add
      Update("add", None, Some(<<"n">>), <<>>, <<>>),
      Update("add", None, Some(<<"n">>), << SubBullet(<<"c">>) >>,
             << SubUpdate("add", None, Some(<<"m">>)) >>),
      Update("add", Some(EmptyId), Some(<<"n">>), <<>>, <<>>),
      Update("add", Some(ItemId(2)), Some(<<"x">>), <<>>, <<>>),
      Update("add", Some(<<"item", "05">>), Some(<<"x">>), <<>>, <<>>),
      Update("add", Some(<<"task">>), Some(<<"x">>), <<>>, <<>>),
      Update("add", Some(<<"item", "1", "2">>), Some(<<"x">>), <<>>, <<>>),
      Update("add", None, None, <<>>, <<>>),
      \* remove
      Update("remove", Some(ItemId(2)), None, <<>>, <<>>),
      Update("remove", Some(ItemId(9)), None, <<>>, <<>>),
      Update("remove", None, Some(<<"u">>), <<>>, <<>>),
      \* update
      Update("update", Some(ItemId(1)), Some(<<"u">>), <<>>, <<>>),
      Update("update", Some(ItemId(9)), Some(<<"u">>), << SubBullet(<<"c">>) >>,
             << SubUpdate("add", None, Some(<<"m">>)) >>),
      Update("update", None, Some(<<"u">>), << SubBullet(<<"c">>) >>, <<>>),
      Update("update", Some(ItemId(1)), None, <<>>,
             << SubUpdate("remove", Some(SubItemId(ItemId(1), 1)), None),
                SubUpdate("add", None, Some(<<"m">>)) >>),
      Update("update", Some(ItemId(1)), None, <<>>,
             << SubUpdate("add", None, Some(<<"m">>)),
                SubUpdate("add", None, Some(<<"k">>)) >>),
      Update("update", Some(ItemId(1)), None, << SubBullet(<<"c">>) >>,
             << SubUpdate("add", Some(SubItemId(ItemId(1), 1)), Some(<<"m">>)),
                SubUpdate("add", None, Some(<<"k">>)) >>) }

RefineOutputs ==
    [ skill \in SkillName |-> { RefineOutput(us) : us \in SeqsUpTo(RefineUpdates, MaxUpdates) } ]

RefineInit == DrawInit(RefineStates)

RefineNext == Drawn /\ RunPlannedAction(RefineOutputs)

RefineSpec == RefineInit /\ [][RefineNext]_vars

----------------------------------------------------------------------------
(* Claims about the refinement instructions (RefineSpec)                   *)

Incorporated == AppliedSkill = "incorporate_refinements"

\* the checklist after the first k instructions of the batch
ListAfter(k) ==
    ApplyRefinementUpdates(pre.working.checklist_items, SubSeq(AppliedOutput.updates, 1, k))

ItemIdsOf(items) == { items[i].item_id : i \in 1..Len(items) }
SubIdsOf(subs) == { subs[i].sub_item_id : i \in 1..Len(subs) }

\* the instruction names an id and an item of `items` carries it
Present(items, u) == u.item_id # None /\ Get(u.item_id) \in ItemIdsOf(items)

\* C8: a remove instruction whose item_id is present deletes the item of that id
\* (one item when one carries the id) and keeps every other item, unchanged and
\* in the original relative order; an update or remove instruction whose
\* item_id is absent or unknown leaves the list of items (ids, order, fields,
\* sub-items) unchanged.
C8_RemoveAndUnknownIds ==
    Incorporated =>
        LET us == AppliedOutput.updates IN
        /\ state.working.checklist_items = ListAfter(Len(us))
        /\ \A k \in 1..Len(us) :
              LET b == ListAfter(k - 1)
                  a == ListAfter(k)
                  u == us[k]
              IN  /\ (u.action = "remove" /\ Present(b, u)) =>
                         /\ a = SelectSeq(b, LAMBDA x : x.item_id # Get(u.item_id))
                         /\ Get(u.item_id) \notin ItemIdsOf(a)
                         /\ Cardinality({ i \in 1..Len(b) : b[i].item_id = Get(u.item_id) }) = 1
                                => Len(a) = Len(b) - 1
                  /\ (u.action \in {"update", "remove"} /\ ~Present(b, u)) => a = b

\* C8 witness: remove item-2 from item-1, item-2, item-3 leaves item-1, item-3
C8_Witness ==
    /\ Incorporated
    /\ Len(AppliedOutput.updates) = 1
    /\ AppliedOutput.updates[1].action = "remove"
    /\ AppliedOutput.updates[1].item_id = Some(<<"item", "2">>)
    /\ Len(pre.working.checklist_items) = 3
    /\ state.working.checklist_items
           = << pre.working.checklist_items[1], pre.working.checklist_items[3] >>
    /\ state.working.checklist_items[1].item_id = <<"item", "1">>
    /\ state.working.checklist_items[2].item_id = <<"item", "3">>

\* an update that names an unknown id and carries a summary and sub-items left
\* a non-empty list as it was
C8_UnknownIgnored ==
    /\ Incorporated
    /\ Len(AppliedOutput.updates) = 1
    /\ AppliedOutput.updates[1].action = "update"
    /\ AppliedOutput.updates[1].item_id = Some(<<"item", "9">>)
    /\ pre.working.checklist_items # <<>>
    /\ state.working.checklist_items = pre.working.checklist_items

\* an add that names no id (None or "") and carries a summary
PlainAdd(u, id) == u.action = "add" /\ (id = None \/ id = Some(<<"">>)) /\ Truthy(u.summary)

\* `id` is "item-N" with N above the number of every "item-M" among `ids`
NextItemName(id, ids) ==
    \E N \in 1..Len(DecimalDigits) :
        /\ id = << "item", DecimalDigits[N] >>
        /\ \A M \in 1..Len(DecimalDigits) : << "item", DecimalDigits[M] >> \in ids => M < N

\* `id` is "<parent>-N" with N above the number of every "<parent>-M" among `ids`
NextSubItemName(id, parent, ids) ==
    \E N \in 1..Len(DecimalDigits) :
        /\ id = parent \o << DecimalDigits[N] >>
        /\ \A M \in 1..Len(DecimalDigits) : parent \o << DecimalDigits[M] >> \in ids => M < N

\* the sub-item instructions of `u` add fresh ids: `parent` is the item they
\* act on after instruction `u`, `base` the sub-items they start from
FreshSubAdds(parent, base, u) ==
    LET su == u.sub_item_updates
        SubAfter(j) == ApplySubItemChanges(parent.item_id, base, SubSeq(su, 1, j))
    IN  su # <<>> =>
        /\ parent.sub_items = SubAfter(Len(su))
        /\ \A j \in 1..Len(su) :
              PlainAdd(su[j], su[j].sub_item_id) =>
                  LET sb == SubAfter(j - 1)
                      sa == SubAfter(j)
                  IN  /\ Len(sa) = Len(sb) + 1
                      /\ SubSeq(sa, 1, Len(sb)) = sb
                      /\ sa[Len(sa)].sub_item_id \notin SubIdsOf(sb)
                      /\ NextSubItemName(sa[Len(sa)].sub_item_id, parent.item_id, SubIdsOf(sb))
                      /\ sa[Len(sa)].summary = Get(su[j].summary)

\* C9: an add instruction without an explicit id and with a summary appends one
\* item at the end of the list, whose id is the next free item-N: it differs
\* from the id of every item present when the instruction is applied, the items
\* added earlier in the same batch included; and a sub-item add without an
\* explicit id appends one sub-item whose id <parent>-N differs from the id of
\* every sub-item its parent holds at that point.
C9_FreshIds ==
    Incorporated =>
        LET us == AppliedOutput.updates IN
        /\ state.working.checklist_items = ListAfter(Len(us))
        /\ \A k \in 1..Len(us) :
              LET b == ListAfter(k - 1)
                  a == ListAfter(k)
                  u == us[k]
              IN  /\ PlainAdd(u, u.item_id) =>
                         /\ Len(a) = Len(b) + 1
                         /\ SubSeq(a, 1, Len(b)) = b
                         /\ a[Len(a)].item_id \notin ItemIdsOf(b)
                         /\ NextItemName(a[Len(a)].item_id, ItemIdsOf(b))
                         /\ a[Len(a)].summary = Get(u.summary)
                  /\ (u.action = "add" /\ Truthy(u.summary)) =>
                         FreshSubAdds(a[Len(a)],
                                      _build_sub_items_from_bullets(a[Len(a)].item_id, u.sub_items),
                                      u)
                  /\ (u.action = "update" /\ Present(b, u)) =>
                         LET i == CHOOSE i \in 1..Len(b) :
                                     /\ b[i].item_id = Get(u.item_id)
                                     /\ \A h \in (i + 1)..Len(b) : b[h].item_id # Get(u.item_id)
                         IN  FreshSubAdds(a[i],
                                          IF u.sub_items # <<>>
                                          THEN _build_sub_items_from_bullets(a[i].item_id, u.sub_items)
                                          ELSE b[i].sub_items,
                                          u)

\* C9 witness: two adds without an id in one batch, on item-1..item-3, the first
\* bringing a sub-bullet and a sub-item add: item-4 (with item-4-1, item-4-2)
\* and item-5
C9_Witness ==
    /\ Incorporated
    /\ Len(AppliedOutput.updates) = 2
    /\ PlainAdd(AppliedOutput.updates[1], AppliedOutput.updates[1].item_id)
    /\ PlainAdd(AppliedOutput.updates[2], AppliedOutput.updates[2].item_id)
    /\ Len(pre.working.checklist_items) = 3
    /\ Len(state.working.checklist_items) = 5
    /\ state.working.checklist_items[4].item_id = <<"item", "4">>
    /\ state.working.checklist_items[5].item_id = <<"item", "5">>
    /\ SubIdsOf(state.working.checklist_items[4].sub_items)
           = { <<"item", "4", "1">>, <<"item", "4", "2">> }

\* an add after a remove in the same batch: item-2 removed from item-1..item-3,
\* the new item is item-4
C9_AddAfterRemove ==
    /\ Incorporated
    /\ Len(AppliedOutput.updates) = 2
    /\ AppliedOutput.updates[1].action = "remove"
    /\ PlainAdd(AppliedOutput.updates[2], AppliedOutput.updates[2].item_id)
    /\ Len(pre.working.checklist_items) = 3
    /\ Len(state.working.checklist_items) = 3
    /\ state.working.checklist_items[3].item_id = <<"item", "4">>

\* a sub-item add after a sub-item remove: item-1-1 removed, the new one is item-1-3
C9_SubAddAfterRemove ==
    /\ Incorporated
    /\ Len(AppliedOutput.updates) = 1
    /\ pre.working.checklist_items # <<>>
    /\ SubIdsOf(pre.working.checklist_items[1].sub_items)
           = { <<"item", "1", "1">>, <<"item", "1", "2">> }
    /\ SubIdsOf(state.working.checklist_items[1].sub_items)
           = { <<"item", "1", "2">>, <<"item", "1", "3">> }

----------------------------------------------------------------------------
(* ProgressSpec: run_planned_action in interpreting_intent, the generation *)
(* call returning any batch of at most MaxSignals signals, applied to a    *)
(* saved checklist on which earlier progress may have been recorded.       *)

\* longest batch of signals in one result
MaxSignals == 2

\* progress recorded before: none, every item complete, the sub-items complete
PriorProgress ==
    { ProgressOutput(<<>>, FALSE),
      ProgressOutput(<< Signal(AllIds, <<>>, Some("complete"), Some(<<"n">>)) >>, FALSE),
      ProgressOutput(<< Signal(<<>>, AllSubIds, Some("complete"), None) >>, FALSE) }

\* sessions waiting in interpreting_intent
ProgressStates ==
    { ingest_progress_input(
          acknowledge_progress_ack(
              _handle_interpret_progress_update(ingest_progress_input(s, <<"p">>, 0), o, 0), 0),
          <<"q">>, 0) : s \in Saved, o \in PriorProgress }

\* the signals a batch is made of
ProgressSignals ==
    { Signal(<<ItemId(1)>>, <<>>, Some("complete"), Some(<<"done">>)),
      Signal(<<ItemId(1), ItemId(1)>>, <<>>, Some("complete"), Some(<<"done">>)),
      Signal(<<ItemId(1), ItemId(2)>>, <<SubItemId(ItemId(1), 1), SubItemId(ItemId(1), 2)>>,
             Some("complete"), None),
      Signal(<<>>, <<SubItemId(ItemId(1), 1)>>, Some("in_progress"), Some(<<"sub">>)),
      Signal(<<ItemId(9)>>, <<SubItemId(ItemId(9), 1)>>, Some("complete"), Some(<<"x">>)),
      Signal(<<ItemId(1)>>, <<>>, None, Some(<<"fyi">>)),
      Signal(<<ItemId(2)>>, <<>>, Some("in_progress"), None),
      Signal(<<ItemId(1)>>, <<>>, None, None),
      Signal(<<>>, <<>>, Some("complete"), Some(<<"x">>)),
      Signal(<<ItemId(1)>>, <<>>, Some("pending"), Some(<<>>)) }

ProgressOutputs ==
    [ skill \in SkillName |->
        { ProgressOutput(sg, c) : sg \in SeqsUpTo(ProgressSignals, MaxSignals), c \in BOOLEAN } ]

ProgressInit == DrawInit(ProgressStates)

ProgressNext == Drawn /\ RunPlannedAction(ProgressOutputs)

ProgressSpec == ProgressInit /\ [][ProgressNext]_vars

----------------------------------------------------------------------------
(* Claims about the progress signals (ProgressSpec)                        *)

ProgressInterpreted == AppliedSkill = "interpret_progress_update"

\* the checklist and the progress log after the first k signals of the batch
AfterSignals(k) ==
    ApplySignals(pre.working.checklist_items, pre.working.progress_log,
                 SubSeq(AppliedOutput.signals, 1, k),
                 OrText(pre.working.latest_user_message, <<>>))

\* how many times `id` occurs in the list `ids`
Occurrences(ids, id) == Cardinality({ h \in 1..Len(ids) : ids[h] = id })

RECURSIVE Repeated(_, _)
Repeated(x, n) == IF n = 0 THEN <<>> ELSE <<x>> \o Repeated(x, n - 1)

\* x (an item or a sub-item) before and after a signal that names it n times:
\* the status is the signal's when it gives one, the note is appended `times`
\* times when it gives one; a signal that does not name it leaves both alone
Affected(xb, xa, g, n, times) ==
    IF n = 0 THEN xa.status = xb.status /\ xa.notes = xb.notes
    ELSE /\ xa.status = IF g.new_status # None THEN Get(g.new_status) ELSE xb.status
         /\ xa.notes = IF Truthy(g.note) THEN xb.notes \o Repeated(Get(g.note), times)
                       ELSE xb.notes

\* every signal of the batch acted on every item and sub-item as Affected says,
\* a note being appended once (once = TRUE) or once per occurrence of the id
SignalsApplied(once) ==
    LET sg == AppliedOutput.signals IN
    /\ state.working.checklist_items = AfterSignals(Len(sg)).items
    /\ \A k \in 1..Len(sg) :
          LET b == AfterSignals(k - 1).items
              a == AfterSignals(k).items
              g == sg[k]
          IN  /\ Len(a) = Len(b)
              /\ \A i \in 1..Len(b) :
                    LET n == Occurrences(g.item_ids, b[i].item_id) IN
                    /\ a[i].item_id = b[i].item_id
                    /\ Affected(b[i], a[i], g, n, IF once THEN 1 ELSE n)
                    /\ Len(a[i].sub_items) = Len(b[i].sub_items)
                    /\ \A j \in 1..Len(b[i].sub_items) :
                          LET m == Occurrences(g.sub_item_ids, b[i].sub_items[j].sub_item_id) IN
                          /\ a[i].sub_items[j].sub_item_id = b[i].sub_items[j].sub_item_id
                          /\ Affected(b[i].sub_items[j], a[i].sub_items[j], g, m,
                                      IF once THEN 1 ELSE m)

\* C11: for every signal and every referenced item id and sub-item id that
\* exists in the checklist, the status becomes the signal's new_status (when one
\* is given) and the signal's note (when one is given) is appended once to the
\* notes; items and sub-items no signal references keep their status and notes.
C11_SignalsAppliedOnce ==
    ProgressInterpreted => SignalsApplied(TRUE)

\* what the handler does: the note is appended once for every occurrence of the
\* id in the signal's list (item-1 named twice gets the note twice)
C11_SignalsAppliedPerOccurrence ==
    ProgressInterpreted => SignalsApplied(FALSE)

\* the scenario: item-1 pending, one signal naming it once with complete and
\* "done": the status is complete and the notes gained "done"
C11_Scenario ==
    /\ ProgressInterpreted
    /\ Len(AppliedOutput.signals) = 1
    /\ AppliedOutput.signals[1].item_ids = << <<"item", "1">> >>
    /\ AppliedOutput.signals[1].note = Some(<<"done">>)
    /\ pre.working.checklist_items # <<>>
    /\ pre.working.checklist_items[1].status = "pending"
    /\ state.working.checklist_items[1].status = "complete"
    /\ state.working.checklist_items[1].notes
           = Append(pre.working.checklist_items[1].notes, <<"done">>)

\* item-1 named twice in one signal: the note was appended twice
C11_NoteTwice ==
    /\ ProgressInterpreted
    /\ Len(AppliedOutput.signals) = 1
    /\ AppliedOutput.signals[1].item_ids = << <<"item", "1">>, <<"item", "1">> >>
    /\ pre.working.checklist_items # <<>>
    /\ state.working.checklist_items[1].notes
           = pre.working.checklist_items[1].notes \o << <<"done">>, <<"done">> >>

\* signal k names an item or a sub-item of the checklist it is applied to
NamesExisting(k) ==
    LET b == AfterSignals(k - 1).items
        g == AppliedOutput.signals[k]
    IN  \E i \in 1..Len(b) :
           \/ Occurrences(g.item_ids, b[i].item_id) > 0
           \/ \E j \in 1..Len(b[i].sub_items) :
                 Occurrences(g.sub_item_ids, b[i].sub_items[j].sub_item_id) > 0

\* signal k changed the status of an item or a sub-item
ChangedStatus(k) ==
    LET b == AfterSignals(k - 1).items
        a == AfterSignals(k).items
    IN  \E i \in 1..Len(b) :
           \/ a[i].status # b[i].status
           \/ \E j \in 1..Len(b[i].sub_items) :
                 a[i].sub_items[j].status # b[i].sub_items[j].status

\* the entries signal k appended to the progress log
EntriesOf(k) == Len(AfterSignals(k).progress_log) - Len(AfterSignals(k - 1).progress_log)

\* C12: the handler appends exactly one ProgressLogEntry for each signal that
\* produced at least one status transition (one, not two, when it produced item
\* and sub-item transitions), and no entry for a signal that produced none.
C12_EntryPerTransition ==
    ProgressInterpreted =>
        /\ state.working.progress_log = AfterSignals(Len(AppliedOutput.signals)).progress_log
        /\ \A k \in 1..Len(AppliedOutput.signals) :
              EntriesOf(k) = IF ChangedStatus(k) THEN 1 ELSE 0

\* what the handler does: one entry for each signal that names an existing item
\* or sub-item, whether or not a status changed; never two; none otherwise
C12_EntryPerNamingSignal ==
    ProgressInterpreted =>
        /\ state.working.progress_log = AfterSignals(Len(AppliedOutput.signals)).progress_log
        /\ SubSeq(state.working.progress_log, 1, Len(pre.working.progress_log))
               = pre.working.progress_log
        /\ \A k \in 1..Len(AppliedOutput.signals) :
              EntriesOf(k) = IF NamesExisting(k) THEN 1 ELSE 0

\* a signal with items and sub-items, all changed: one entry, not two
C12_OneNotTwo ==
    /\ ProgressInterpreted
    /\ Len(AppliedOutput.signals) = 1
    /\ Len(AppliedOutput.signals[1].item_ids) = 2
    /\ Len(AppliedOutput.signals[1].sub_item_ids) = 2
    /\ ChangedStatus(1)
    /\ Len(state.working.progress_log) = Len(pre.working.progress_log) + 1

\* a signal with a note and no status, on an existing item: an entry, no transition
C12_EntryWithoutTransition ==
    /\ ProgressInterpreted
    /\ Len(AppliedOutput.signals) = 1
    /\ AppliedOutput.signals[1].new_status = None
    /\ ~ChangedStatus(1)
    /\ Len(state.working.progress_log) = Len(pre.working.progress_log) + 1

\* every item and every sub-item of the list is complete (stated over the list,
\* not computed by the loop of checklist_is_complete)
AllComplete(items) ==
    /\ \A i \in 1..Len(items) :
          /\ items[i].status = "complete"
          /\ \A j \in 1..Len(items[i].sub_items) : items[i].sub_items[j].status = "complete"

\* C13: after 'progress interpreted', needs_clarification set gives phase
\* asking_clarification, awaiting_clarification true and the output's prompt
\* stored; otherwise awaiting_clarification is false, the prompt is cleared, and
\* the phase is generating_summary exactly when the checklist after the signals
\* is complete, acknowledging_progress otherwise.
C13_PhaseAfterProgress ==
    ProgressInterpreted =>
        IF AppliedOutput.needs_clarification
        THEN /\ state.workflow.phase = "asking_clarification"
             /\ state.workflow.awaiting_clarification
             /\ state.working.clarification_prompt = AppliedOutput.clarification_prompt
        ELSE /\ ~state.workflow.awaiting_clarification
             /\ state.working.clarification_prompt = None
             /\ state.workflow.phase =
                   IF /\ state.working.checklist_items # <<>>
                      /\ AllComplete(state.working.checklist_items)
                   THEN "generating_summary"
                   ELSE "acknowledging_progress"

\* the signals completed a checklist that was not complete: generating_summary
C13_Witness ==
    /\ ProgressInterpreted
    /\ ~AppliedOutput.needs_clarification
    /\ pre.working.checklist_items # <<>>
    /\ ~AllComplete(pre.working.checklist_items)
    /\ AllComplete(state.working.checklist_items)
    /\ state.workflow.phase = "generating_summary"

\* a clarification asked although the signals completed the checklist
C13_Clarify ==
    /\ ProgressInterpreted
    /\ AppliedOutput.needs_clarification
    /\ state.working.checklist_items # <<>>
    /\ AllComplete(state.working.checklist_items)
    /\ state.workflow.phase = "asking_clarification"
    /\ state.working.clarification_prompt # None

\* C14: checklist_is_complete(state) is true if and only if the item list is
\* non-empty and every item and every sub-item of every item is complete; an
\* empty list yields false, and so does one pending or in_progress item or
\* sub-item.
C14_ChecklistIsComplete ==
    \A s \in {pre, state} :
        /\ checklist_is_complete(s)
              <=> (s.working.checklist_items # <<>> /\ AllComplete(s.working.checklist_items))
        /\ s.working.checklist_items = <<>> => ~checklist_is_complete(s)
        /\ \A i \in 1..Len(s.working.checklist_items) :
              LET item == s.working.checklist_items[i] IN
              \/ item.status \in {"pending", "in_progress"}
              \/ \E j \in 1..Len(item.sub_items) :
                    item.sub_items[j].status \in {"pending", "in_progress"}
              => ~checklist_is_complete(s)

\* every item complete and one sub-item not: the checklist is not complete and
\* the session goes on acknowledging
C14_Witness ==
    /\ ProgressInterpreted
    /\ ~AppliedOutput.needs_clarification
    /\ state.working.checklist_items # <<>>
    /\ \A i \in 1..Len(state.working.checklist_items) :
          state.working.checklist_items[i].status = "complete"
    /\ \E i \in 1..Len(state.working.checklist_items) :
          \E j \in 1..Len(state.working.checklist_items[i].sub_items) :
             state.working.checklist_items[i].sub_items[j].status # "complete"
    /\ ~checklist_is_complete(state)
    /\ state.workflow.phase = "acknowledging_progress"

\* items and sub-items all complete: the checklist is complete
C14_Complete ==
    /\ ProgressInterpreted
    /\ Len(state.working.checklist_items) = 2
    /\ \E i \in 1..2 : state.working.checklist_items[i].sub_items # <<>>
    /\ checklist_is_complete(state)

\* no items at all: not complete
C14_Empty ==
    /\ ProgressInterpreted
    /\ state.working.checklist_items = <<>>
    /\ ~checklist_is_complete(state)

----------------------------------------------------------------------------
(* Claims about the identity of items (RefineSpec, Spec)                   *)

\* no two positions of the list hold the same id
Distinct(list, key) ==
    \A i, j \in 1..Len(list) : list[i][key] = list[j][key] => i = j

UniqueIds(items) ==
    /\ Distinct(items, ItemKey)
    /\ \A i \in 1..Len(items) : Distinct(items[i].sub_items, SubKey)

\* an add instruction of the batch, or a sub-item add under one, names its own id
ExplicitIds ==
    \E k \in 1..Len(AppliedOutput.updates) :
       LET u == AppliedOutput.updates[k] IN
       \/ u.action = "add" /\ u.item_id # None
       \/ \E h \in 1..Len(u.sub_item_updates) :
             u.sub_item_updates[h].action = "add" /\ u.sub_item_updates[h].sub_item_id # None

\* C15: in every state reachable from a fresh state (add instructions with an
\* explicit item_id or sub_item_id and updates that rebuild sub-items included),
\* item ids are pairwise distinct within the checklist and sub-item ids are
\* pairwise distinct within each parent item.
C15_IdsUnique ==
    UniqueIds(state.working.checklist_items)

\* the checklist the instructions were applied to had distinct ids
C15_DistinctBefore ==
    UniqueIds(pre.working.checklist_items)

\* what the handler keeps: ids stay distinct when no add names its own id
C15_UniqueWithGeneratedIds ==
    (Incorporated /\ ~ExplicitIds) => UniqueIds(state.working.checklist_items)

\* an add naming item-2 on a checklist that has item-2: two items called item-2
C15_DuplicateItem ==
    /\ Incorporated
    /\ UniqueIds(pre.working.checklist_items)
    /\ ~Distinct(state.working.checklist_items, ItemKey)

\* a sub-item add naming item-1-1 under an item that has item-1-1
C15_DuplicateSubItem ==
    /\ Incorporated
    /\ UniqueIds(pre.working.checklist_items)
    /\ Distinct(state.working.checklist_items, ItemKey)
    /\ ~UniqueIds(state.working.checklist_items)

\* the (parent id, sub-item id) pairs of a checklist
SubItemsOf(items) ==
    UNION { { << items[i].item_id, items[i].sub_items[j].sub_item_id >> :
                j \in 1..Len(items[i].sub_items) } : i \in 1..Len(items) }

\* the operation was a 'refinements incorporated' result with a remove
\* instruction naming the item
RemoveNames(id) ==
    /\ Incorporated
    /\ \E k \in 1..Len(AppliedOutput.updates) :
          /\ AppliedOutput.updates[k].action = "remove"
          /\ AppliedOutput.updates[k].item_id = Some(id)

\* ... or with a sub-item remove instruction naming the sub-item
SubRemoveNames(id) ==
    /\ Incorporated
    /\ \E k \in 1..Len(AppliedOutput.updates) :
          \E h \in 1..Len(AppliedOutput.updates[k].sub_item_updates) :
             /\ AppliedOutput.updates[k].sub_item_updates[h].action = "remove"
             /\ AppliedOutput.updates[k].sub_item_updates[h].sub_item_id = Some(id)

ItemsGone ==
    ItemIdsOf(pre.working.checklist_items) \ ItemIdsOf(state.working.checklist_items)

SubItemsGone ==
    SubItemsOf(pre.working.checklist_items) \ SubItemsOf(state.working.checklist_items)

\* C16: an item or sub-item that exists in a state is still present (same id)
\* after any operation, unless the operation is a 'refinements incorporated'
\* result with a remove instruction naming its id (or, for a sub-item, its
\* parent's); a second 'initial checklist produced' result and an update
\* instruction carrying sub_items delete nothing.
C16_OnlyRemoveDeletes ==
    /\ \A id \in ItemsGone : RemoveNames(id)
    /\ \A p \in SubItemsGone : RemoveNames(p[1]) \/ SubRemoveNames(p[2])

\* what holds: outside the two results that rebuild (initial checklist
\* produced; an update instruction carrying sub_items) only a remove deletes
C16_DeletesOutsideRebuilds ==
    \/ AppliedSkill = "generate_initial_checklist"
    \/ /\ Incorporated
       /\ \E k \in 1..Len(AppliedOutput.updates) :
             /\ AppliedOutput.updates[k].action = "update"
             /\ AppliedOutput.updates[k].sub_items # <<>>
    \/ C16_OnlyRemoveDeletes

\* a second 'initial checklist produced' result, reached through a second
\* description, replaced the list: an item is gone
C16_SecondChecklist ==
    /\ Ran
    /\ AppliedSkill = "generate_initial_checklist"
    /\ ItemsGone # {}

\* an update instruction carrying sub_items rebuilt the sub-items: one is gone
C16_RebuiltSubItems ==
    /\ Ran
    /\ Incorporated
    /\ ItemsGone = {}
    /\ SubItemsGone # {}

\* a remove instruction deleted the item it names
C16_Removed ==
    /\ Ran
    /\ Incorporated
    /\ ItemsGone = { ItemId(1) }
    /\ RemoveNames(ItemId(1))

----------------------------------------------------------------------------
(* Claims about approval, rejection and saving (Spec)                      *)

ApproveStep == last.op = "approve_checklist"
RejectStep == last.op = "request_more_changes"

\* C17: approve checklist applied in phase check_approval yields phase
\* saving_checklist with checklist_finalized and pending_save true, and leaves
\* the checklist items, the logs, the pending prompts and the latest user
\* message unchanged.
C17_Approve ==
    (ApproveStep /\ pre.workflow.phase = "check_approval") =>
        /\ state.workflow.phase = "saving_checklist"
        /\ state.workflow.checklist_finalized
        /\ state.workflow.pending_save
        /\ state.working.checklist_items = pre.working.checklist_items
        /\ state.working.conversation_log = pre.working.conversation_log
        /\ state.working.progress_log = pre.working.progress_log
        /\ state.working.refinement_questions = pre.working.refinement_questions
        /\ state.working.refinement_exchanges = pre.working.refinement_exchanges
        /\ state.working.latest_user_message = pre.working.latest_user_message
        /\ state.working = pre.working

\* a revised checklist, not yet finalized, approved in check_approval
C17_Witness ==
    /\ ApproveStep
    /\ pre.workflow.phase = "check_approval"
    /\ ~pre.workflow.checklist_finalized
    /\ ~pre.workflow.pending_save
    /\ pre.working.checklist_items # <<>>
    /\ state.workflow.phase = "saving_checklist"
    /\ state.workflow.pending_save

\* C18: in every run of the ChecklistAgent the phase becomes saving_checklist
\* (and checklist_finalized becomes true) only by an approve step taken while
\* the phase is check_approval, never from idle or any other phase.
C18_ApproveOnlyFromCheckApproval ==
    \/ /\ state.workflow.phase = "saving_checklist" => pre.workflow.phase = "saving_checklist"
       /\ state.workflow.checklist_finalized => pre.workflow.checklist_finalized
    \/ ApproveStep /\ pre.workflow.phase = "check_approval"

\* what holds: only an approve step sets the phase or the flag, in any phase
C18_OnlyApproveSets ==
    \/ /\ state.workflow.phase = "saving_checklist" => pre.workflow.phase = "saving_checklist"
       /\ state.workflow.checklist_finalized => pre.workflow.checklist_finalized
    \/ ApproveStep

\* approve on a fresh agent: idle -> saving_checklist, finalized, no checklist
C18_FromIdle ==
    /\ ApproveStep
    /\ pre = Fresh
    /\ state.workflow.phase = "saving_checklist"
    /\ state.workflow.checklist_finalized
    /\ state.working.checklist_items = <<>>

\* C19: reject checklist always moves the phase to processing_feedback; it
\* appends exactly one user conversation entry holding the reason when the
\* reason is non-empty after trimming and no entry when the reason is empty or
\* whitespace-only; the checklist items are unchanged.
C19_Reject ==
    RejectStep =>
        /\ state.workflow.phase = "processing_feedback"
        /\ state.working.checklist_items = pre.working.checklist_items
        /\ IF Blank(last.arg)
           THEN state.working.conversation_log = pre.working.conversation_log
           ELSE /\ Len(state.working.conversation_log) = Len(pre.working.conversation_log) + 1
                /\ SubSeq(state.working.conversation_log, 1, Len(pre.working.conversation_log))
                       = pre.working.conversation_log
                /\ LET e == state.working.conversation_log[Len(state.working.conversation_log)]
                   IN  /\ e.kind = "user"
                       /\ e.content = Strip(last.arg)
                       /\ ~Blank(e.content)

\* a whitespace-only reason: the phase moves, the log does not grow
C19_Witness ==
    /\ RejectStep
    /\ last.arg = <<SP, SP>>
    /\ pre.workflow.phase = "check_approval"
    /\ state.workflow.phase = "processing_feedback"
    /\ state.working.conversation_log = pre.working.conversation_log

\* a reason with text: one user entry holding it, trimmed
C19_Logged ==
    /\ RejectStep
    /\ last.arg = <<SP, "c", SP>>
    /\ pre.workflow.phase = "check_approval"
    /\ state.working.conversation_log
           = Append(pre.working.conversation_log, UserEntry(<<"c">>))

SaveStep == last.op = "record_save_result"
SavedChecklist == last.op = "save_checklist" /\ err = NoError

\* C20: record save result sets the saved-file path to the supplied path, clears
\* pending_save, appends exactly one system conversation entry and moves the
\* phase to confirming_save; save_checklist, when it succeeds, ends with phase
\* listening_for_progress, pending_save false and the file path set.
C20_SaveResult ==
    /\ SaveStep =>
          /\ state.working.checklist_file_path = Some(last.arg)
          /\ ~state.workflow.pending_save
          /\ state.workflow.phase = "confirming_save"
          /\ Len(state.working.conversation_log) = Len(pre.working.conversation_log) + 1
          /\ SubSeq(state.working.conversation_log, 1, Len(pre.working.conversation_log))
                 = pre.working.conversation_log
          /\ state.working.conversation_log[Len(state.working.conversation_log)].kind = "system"
    /\ SavedChecklist =>
          /\ state.workflow.phase = "listening_for_progress"
          /\ ~state.workflow.pending_save
          /\ state.working.checklist_file_path = Some(SavedPath(now))
          /\ Len(state.working.conversation_log) = Len(pre.working.conversation_log) + 1

\* an approved checklist waiting for its save: the result is recorded
C20_Witness ==
    /\ SaveStep
    /\ pre.workflow.phase = "saving_checklist"
    /\ pre.workflow.pending_save
    /\ pre.working.checklist_file_path = None
    /\ state.workflow.phase = "confirming_save"
    /\ ~state.workflow.pending_save
    /\ state.working.checklist_file_path # None

\* save_checklist on an approved checklist: tracking starts, nothing pending
C20_Saved ==
    /\ SavedChecklist
    /\ pre.workflow.phase = "saving_checklist"
    /\ pre.workflow.pending_save
    /\ state.workflow.phase = "listening_for_progress"
    /\ ~state.workflow.pending_save
    /\ state.working.checklist_file_path # None

\* save_checklist failed (no description, or the file system): nothing changed
C20_Failed ==
    /\ last.op = "save_checklist"
    /\ err # NoError
    /\ pre.workflow.pending_save
    /\ state = pre

----------------------------------------------------------------------------
(* Claims about tracking and acknowledgements (Spec)                       *)

TrackingStep == last.op = "start_tracking"
AckProgressStep == last.op = "acknowledge_progress"

\* s with the time of its last transition set to t
StampedAt(s, t) == [ s EXCEPT !.workflow.last_transition_at = t ]

\* C21: activate tracking sets listening_started_at only the first time: once
\* it is set, no later operation (a repeated activate tracking included)
\* changes it; a repeated activate tracking leaves the phase
\* listening_for_progress and every field other than last_transition_at
\* unchanged.
C21_ListeningStartedOnce ==
    /\ pre.workflow.listening_started_at # None =>
          state.workflow.listening_started_at = pre.workflow.listening_started_at
    /\ TrackingStep =>
          /\ state.workflow.phase = "listening_for_progress"
          /\ state.workflow.listening_started_at # None
          /\ pre.workflow.listening_started_at = None =>
                state.workflow.listening_started_at = Some(now)
          /\ pre.workflow.phase = "listening_for_progress" =>
                state = [ StampedAt(pre, now) EXCEPT
                            !.workflow.listening_started_at = state.workflow.listening_started_at ]
          /\ \A t \in 0..MaxTime :
                StampedAt(activate_tracking_mode(state, t), now) = state

\* tracking activated again, later than the first time: only the time of the
\* last transition moved
C21_Witness ==
    /\ TrackingStep
    /\ pre.workflow.phase = "listening_for_progress"
    /\ pre.workflow.listening_started_at = Some(0)
    /\ now = 1
    /\ state.workflow.listening_started_at = Some(0)
    /\ state.workflow.last_transition_at = 1
    /\ state = StampedAt(pre, 1)

\* the first activation stamps the start
C21_First ==
    /\ TrackingStep
    /\ pre.workflow.listening_started_at = None
    /\ now = 1
    /\ state.workflow.listening_started_at = Some(1)

\* C22: acknowledge progress, from any phase, yields phase
\* listening_for_progress with awaiting_clarification false, the clarification
\* prompt cleared and the latest user message cleared, and leaves the checklist
\* items, the conversation log and the progress log unchanged.
C22_AcknowledgeProgress ==
    AckProgressStep =>
        /\ state.workflow.phase = "listening_for_progress"
        /\ ~state.workflow.awaiting_clarification
        /\ state.working.clarification_prompt = None
        /\ state.working.latest_user_message = None
        /\ state.working.checklist_items = pre.working.checklist_items
        /\ state.working.conversation_log = pre.working.conversation_log
        /\ state.working.progress_log = pre.working.progress_log

\* a clarification was pending and a message was held: both are cleared
C22_Witness ==
    /\ AckProgressStep
    /\ pre.workflow.phase = "asking_clarification"
    /\ pre.workflow.awaiting_clarification
    /\ pre.working.clarification_prompt # None
    /\ pre.working.latest_user_message # None
    /\ pre.working.checklist_items # <<>>
    /\ state.workflow.phase = "listening_for_progress"
    /\ state.working.latest_user_message = None

\* acknowledged outside the tracking loop, while answers were awaited
C22_AnyPhase ==
    /\ AckProgressStep
    /\ pre.workflow.phase = "processing_feedback"
    /\ pre.working.latest_user_message # None
    /\ state.workflow.phase = "listening_for_progress"
    /\ state.working.latest_user_message = None

----------------------------------------------------------------------------
(* Claims about the end of a session and about failures (Spec)             *)

\* the operations of the ChecklistAgent a caller can invoke
EntryPoints ==
    { "ingest_description", "record_refinement_feedback", "approve_checklist",
      "request_more_changes", "start_tracking", "ingest_progress_update",
      "acknowledge_progress", "acknowledge_summary", "save_checklist",
      "next_decision", "run_planned_action" }

\* C23: acknowledge summary moves presenting_summary to session_complete, and
\* session_complete is terminal: once the phase is session_complete no entry
\* point of the agent (text ingestion, approve, reject, save, tracking,
\* acknowledgements, run_planned_action) changes the phase.
C23_SessionCompleteIsTerminal ==
    /\ (last.op = "acknowledge_summary" /\ pre.workflow.phase = "presenting_summary")
          => state.workflow.phase = "session_complete"
    /\ (pre.workflow.phase = "session_complete" /\ last.op \in EntryPoints)
          => state.workflow.phase = "session_complete"

\* what holds: acknowledge summary ends the session, and in session_complete
\* the coordinator plans nothing, so run_planned_action changes nothing
C23_NothingPlannedWhenComplete ==
    /\ last.op = "acknowledge_summary" => state.workflow.phase = "session_complete"
    /\ (pre.workflow.phase = "session_complete"
          /\ last.op \in {"next_decision", "run_planned_action"})
          => state = pre /\ decision.decision_type # "llm_skill"

\* the summary was presented and acknowledged
C23_Acknowledged ==
    /\ last.op = "acknowledge_summary"
    /\ pre.workflow.phase = "presenting_summary"
    /\ pre.working.completion_summary # None
    /\ state.workflow.phase = "session_complete"

\* a description ingested after the end restarts the session
C23_Restarted ==
    /\ last.op = "ingest_description"
    /\ pre.workflow.phase = "session_complete"
    /\ state.workflow.phase = "generating_checklist"

\* C24: build_artifact on a state whose original description is unset fails
\* with an error and produces no artifact; save_checklist in that situation
\* fails before any state swap, so the agent's state (phase, pending_save, file
\* path, conversation log) is exactly what it was before the call.
C24_NoArtifactWithoutDescription ==
    /\ pre.working.original_description = None =>
          /\ build_artifact(pre, now).raised # NoError
          /\ build_artifact(pre, now).value = None
    /\ (last.op = "save_checklist" /\ pre.working.original_description = None) =>
          /\ err = "ValueError: Cannot persist checklist without an original description"
          /\ state = pre
          /\ state.workflow.phase = pre.workflow.phase
          /\ state.workflow.pending_save = pre.workflow.pending_save
          /\ state.working.checklist_file_path = None
          /\ state.working.conversation_log = pre.working.conversation_log

\* a save pending on an agent that was never given a description, the file
\* system willing: the save fails and the save is still pending
C24_Witness ==
    /\ last.op = "save_checklist"
    /\ last.arg = "saved"
    /\ pre.working.original_description = None
    /\ pre.workflow.phase = "saving_checklist"
    /\ pre.workflow.pending_save
    /\ err # NoError
    /\ state = pre

\* C25: if the structured-generation call inside run_planned_action fails (call
\* error or schema validation failure), no transition is applied: the state
\* equals the state before the call, the phase is unchanged, and the next
\* next_decision returns the same skill decision, so the caller can retry.
C25_FailedCallChangesNothing ==
    (Ran /\ err \in LLMCallErrors) =>
        /\ state = pre
        /\ state.workflow.phase = pre.workflow.phase
        /\ decision.decision_type = "llm_skill"
        /\ decision.skill \in SkillName
        /\ next_action(state) = decision

\* the response did not validate while feedback was to be incorporated
C25_Witness ==
    /\ Ran
    /\ err = "LLMCallError: LLM response failed schema validation"
    /\ pre.workflow.phase = "processing_feedback"
    /\ state = pre
    /\ next_action(state).skill = "incorporate_refinements"

\* the call itself failed while a progress report was to be interpreted
C25_CallFailed ==
    /\ Ran
    /\ err = "LLMCallError: Failed to execute LLM call"
    /\ pre.workflow.phase = "interpreting_intent"
    /\ state = pre
    /\ next_action(state).skill = "interpret_progress_update"

----------------------------------------------------------------------------
(* Claims about the logs (Spec)                                            *)

IsPrefix(a, b) == Len(a) <= Len(b) /\ SubSeq(b, 1, Len(a)) = a

\* the entries the operation appended to the conversation log
NewEntries ==
    SubSeq(state.working.conversation_log, Len(pre.working.conversation_log) + 1,
           Len(state.working.conversation_log))

\* C26: the conversation log, the progress log and the refinement exchange
\* history are append-only: for every operation (every transition and every
\* skill result) the value of each list before the operation is a prefix of its
\* value after it; no entry is removed, reordered or modified.
C26_AppendOnly ==
    /\ IsPrefix(pre.working.conversation_log, state.working.conversation_log)
    /\ IsPrefix(pre.working.progress_log, state.working.progress_log)
    /\ IsPrefix(pre.working.refinement_exchanges, state.working.refinement_exchanges)

\* refinements incorporated after a rejection, on a state that holds the
\* exchanges of the first round: they are kept, and the log gained an entry
C26_Witness ==
    /\ Ran
    /\ AppliedSkill = "incorporate_refinements"
    /\ pre.working.refinement_exchanges # <<>>
    /\ pre.working.conversation_log # <<>>
    /\ IsPrefix(pre.working.refinement_exchanges, state.working.refinement_exchanges)
    /\ Len(state.working.conversation_log) = Len(pre.working.conversation_log) + 1

\* a progress entry on top of a progress log
C26_ProgressLogged ==
    /\ AppliedSkill = "interpret_progress_update"
    /\ pre.working.progress_log # <<>>
    /\ Len(state.working.progress_log) = Len(pre.working.progress_log) + 1

\* C27: each event appends exactly one conversation entry per logical message:
\* a non-empty description, feedback or progress input appends exactly one user
\* entry; each skill result appends exactly one agent entry, except 'refinement
\* questions produced' with N questions, which appends 1 + N agent entries (the
\* introduction first, then one per question in order); approve, activate
\* tracking and the two acknowledgements append none.
C27_EntriesPerEvent ==
    /\ IsPrefix(pre.working.conversation_log, state.working.conversation_log)
    /\ (last.op \in IngestionOps /\ ~Blank(last.arg)) =>
          /\ Len(NewEntries) = 1
          /\ NewEntries[1].kind = "user"
          /\ NewEntries[1].content = Strip(last.arg)
    /\ AppliedSkill \in SkillName \ {"generate_refinement_questions"} =>
          /\ Len(NewEntries) = 1
          /\ NewEntries[1].kind = "agent"
          /\ NewEntries[1].content = AppliedOutput.ai_response
    /\ AppliedSkill = "generate_refinement_questions" =>
          /\ Len(NewEntries) = 1 + Len(AppliedOutput.questions)
          /\ \A i \in 1..Len(NewEntries) : NewEntries[i].kind = "agent"
          /\ NewEntries[1].content \in {AppliedOutput.ai_response, DefaultQuestionsMessage}
          /\ \A i \in 1..Len(AppliedOutput.questions) :
                NewEntries[i + 1].content = AppliedOutput.questions[i].question
    /\ last.op \in {"approve_checklist", "start_tracking", "acknowledge_progress",
                    "acknowledge_summary"} => NewEntries = <<>>

\* three questions without an ai_response: the default introduction, then the
\* three questions in order
C27_Witness ==
    /\ AppliedSkill = "generate_refinement_questions"
    /\ AppliedOutput.ai_response = <<>>
    /\ Len(AppliedOutput.questions) = 3
    /\ Len(NewEntries) = 4
    /\ NewEntries[1].content = DefaultQuestionsMessage
    /\ NewEntries[4].content = Question(3).question

\* a progress report asking for clarification: one agent entry, not two
C27_OneForClarification ==
    /\ AppliedSkill = "interpret_progress_update"
    /\ AppliedOutput.needs_clarification
    /\ Len(NewEntries) = 1

----------------------------------------------------------------------------
(* Claims about what a state holds (Spec)                                  *)

\* the metadata of the entry carries the dump of an artifact
HoldsArtifact(entry) ==
    \E k \in 1..Len(entry.metadata) : entry.metadata[k][1] = "artifact_summary"

\* no conversation entry of s holds an artifact (no field of the working memory
\* is of a type that could)
NoArtifactIn(s) ==
    \A i \in 1..Len(s.working.conversation_log) :
        ~HoldsArtifact(s.working.conversation_log[i])

\* C28: a ChecklistArtifact is built on demand and never stored in
\* ResearchState: in every reachable state, those produced by record save
\* result and save_checklist included, no field of the state (working memory,
\* conversation entries or their metadata) holds an artifact or a copy of its
\* content.
C28_ArtifactNeverStored ==
    NoArtifactIn(pre) => NoArtifactIn(state)

\* what holds: only record save result and save_checklist add an entry that
\* holds an artifact, and it is the artifact of the state they were called on
C28_OnlySaveStores ==
    \A i \in 1..Len(NewEntries) :
        HoldsArtifact(NewEntries[i]) =>
            /\ SaveStep \/ SavedChecklist
            /\ NewEntries[i].kind = "system"
            /\ NewEntries[i].metadata = << <<"artifact_summary", build_artifact(pre, now).value>> >>

\* save_checklist on a state whose log holds no artifact: the new system entry
\* carries the whole artifact, the checklist items and the log excerpt included
C28_StoredBySave ==
    /\ SavedChecklist
    /\ pre.working.checklist_items # <<>>
    /\ NoArtifactIn(pre)
    /\ Len(NewEntries) = 1
    /\ HoldsArtifact(NewEntries[1])
    /\ NewEntries[1].metadata[1][2].items # <<>>
    /\ NewEntries[1].metadata[1][2].conversation_excerpt # <<>>

PromptsOnlyWhileRefining(s) ==
    s.working.refinement_questions # <<>> =>
        s.workflow.phase \in {"awaiting_user_response", "processing_feedback"}

\* C29: pending refinement prompts are held only between 'questions asked' and
\* 'feedback processed': in every state reachable through the ChecklistAgent
\* the pending prompt list is non-empty only while the phase is
\* awaiting_user_response or processing_feedback, and empty in every other
\* phase.
C29_PromptsOnlyWhileRefining ==
    PromptsOnlyWhileRefining(pre) => PromptsOnlyWhileRefining(state)

\* what holds: only the two refinement results write the pending prompts, the
\* first leaving the phase awaiting_user_response when it produced any, the
\* second leaving none
C29_PromptsWrittenByRefinement ==
    /\ state.working.refinement_questions # pre.working.refinement_questions =>
          AppliedSkill \in {"generate_refinement_questions", "incorporate_refinements"}
    /\ AppliedSkill = "generate_refinement_questions" =>
          (state.working.refinement_questions # <<>>
              <=> state.workflow.phase = "awaiting_user_response")
    /\ AppliedSkill = "incorporate_refinements" => state.working.refinement_questions = <<>>

\* the checklist approved while questions wait for an answer
C29_ApprovedWhileAsked ==
    /\ ApproveStep
    /\ pre.workflow.phase = "awaiting_user_response"
    /\ pre.working.refinement_questions # <<>>
    /\ state.workflow.phase = "saving_checklist"
    /\ state.working.refinement_questions # <<>>

\* a new description while questions wait for an answer
C29_RedescribedWhileAsked ==
    /\ last.op = "ingest_description"
    /\ pre.workflow.phase = "awaiting_user_response"
    /\ state.workflow.phase = "generating_checklist"
    /\ state.working.refinement_questions # <<>>

FeedbackHeldWhenProcessing(s) ==
    s.workflow.phase = "processing_feedback" => s.working.latest_user_message # None

\* C30: no operation leaves a required field null in the phase that needs it:
\* in every state reachable through the ChecklistAgent whose phase is
\* processing_feedback, latest_user_message is non-null, also when
\* processing_feedback was entered by rejecting the checklist with a reason.
C30_FeedbackHeldWhenProcessing ==
    FeedbackHeldWhenProcessing(pre) => FeedbackHeldWhenProcessing(state)

\* what holds: feedback recorded with text enters processing_feedback holding it
C30_RecordedFeedbackHeld ==
    (last.op = "record_refinement_feedback" /\ ~Blank(last.arg)) =>
        /\ state.workflow.phase = "processing_feedback"
        /\ state.working.latest_user_message = Some(Strip(last.arg))

\* the revised checklist rejected with a reason: the reason is in the log, and
\* no latest message is held for the skill
C30_RejectedWithReason ==
    /\ RejectStep
    /\ ~Blank(last.arg)
    /\ pre.workflow.phase = "check_approval"
    /\ pre.working.latest_user_message = None
    /\ state.workflow.phase = "processing_feedback"
    /\ state.working.latest_user_message = None
    /\ NewEntries = << UserEntry(Strip(last.arg)) >>

----------------------------------------------------------------------------
(* Claims about saving and the approval flags (Spec)                       *)

\* C31: saving the checklist is enabled only after approval: save_checklist
\* persists an artifact and records a save result only in a state where the
\* checklist has been approved (checklist_finalized true); in a state that was
\* never approved it does not save.
C31_SaveOnlyAfterApproval ==
    SavedChecklist => pre.workflow.checklist_finalized

\* what holds: save_checklist saves exactly when a description is held and the
\* repository succeeds, whatever the phase and the flags
C31_SaveNeedsDescriptionOnly ==
    last.op = "save_checklist" =>
        (err = NoError <=> (pre.working.original_description # None /\ last.arg = "saved"))

\* a generated checklist nobody approved, saved during the refinement
C31_SavedUnapproved ==
    /\ SavedChecklist
    /\ ~pre.workflow.checklist_finalized
    /\ ~pre.workflow.pending_save
    /\ pre.workflow.phase = "awaiting_user_response"
    /\ state.working.checklist_file_path # None
    /\ state.workflow.phase = "listening_for_progress"
    /\ ~state.workflow.checklist_finalized

----------------------------------------------------------------------------
(* RunSpec: whole runs of one ChecklistAgent from a new agent. Every entry *)
(* point may be called at every step; skill results are applied by         *)
(* run_planned_action alone. A run stops growing when the conversation log *)
(* holds MaxLog entries.                                                   *)

MaxLog == 6

\* the user events of a run, each with one text, and their transitions
RunEvents(s, t) ==
    { [ op |-> "ingest_description", arg |-> <<"d">>,
        value |-> ingest_user_description(s, <<"d">>, t) ],
      [ op |-> "record_refinement_feedback", arg |-> <<"f">>,
        value |-> record_user_feedback(s, <<"f">>, t) ],
      [ op |-> "approve_checklist", arg |-> NoArg, value |-> mark_checklist_approved(s, t) ],
      [ op |-> "request_more_changes", arg |-> <<"c">>,
        value |-> mark_checklist_rejected(s, <<"c">>, t) ],
      [ op |-> "start_tracking", arg |-> NoArg, value |-> activate_tracking_mode(s, t) ],
      [ op |-> "ingest_progress_update", arg |-> <<"p">>,
        value |-> ingest_progress_input(s, <<"p">>, t) ],
      [ op |-> "acknowledge_progress", arg |-> NoArg, value |-> acknowledge_progress_ack(s, t) ],
      [ op |-> "acknowledge_summary", arg |-> NoArg,
        value |-> acknowledge_summary_delivery(s, t) ] }

\* the skill outputs of a run: a checklist of one item; no question, one or
\* MAX_REFINEMENT_QUESTIONS questions; one added item; item-1 completed or
\* started, a clarification asked with or without a prompt, a prompt without
\* the flag; a summary
RunOutputs ==
    [ skill \in SkillName |->
        CASE skill = "generate_initial_checklist" ->
                 { [ ai_response |-> <<"r">>, items |-> << Bullet(<<"s">>, <<>>) >> ] }
          [] skill = "generate_refinement_questions" ->
                 { [ ai_response |-> <<"r">>, questions |-> [ i \in 1..n |-> Question(i) ] ] :
                     n \in {0, 1, MAX_REFINEMENT_QUESTIONS} }
          [] skill = "incorporate_refinements" ->
                 { RefineOutput(<< Update("add", None, Some(<<"n">>), <<>>, <<>>) >>) }
          [] skill = "interpret_progress_update" ->
                 { ProgressOutput(<< Signal(<<ItemId(1)>>, <<>>, Some("complete"), None) >>, FALSE),
                   ProgressOutput(<< Signal(<<ItemId(1)>>, <<>>, Some("in_progress"), None) >>,
                                  FALSE),
                   ProgressOutput(<<>>, TRUE),
                   [ ProgressOutput(<<>>, TRUE) EXCEPT !.clarification_prompt = None ],
                   [ ProgressOutput(<<>>, FALSE) EXCEPT !.clarification_prompt = Some(<<"c">>) ] }
          [] OTHER -> SummaryOutputs ]

\* the states run_planned_action can swap in for `s`: the results of the planned
\* skill, when one is planned and its call succeeds
PlannedResults(s, t, outputs) ==
    LET d == next_action(s) IN
    IF d.decision_type = "llm_skill" /\ d.skill # NoSkill /\ d.skill \in _SKILL_DEFINITIONS
    THEN { r.value : r \in { q \in { update_state_from_skill(s, d.skill, o, t) :
                                         o \in outputs[d.skill] } : q.raised = NoError } }
    ELSE {}

\* the state save_checklist swaps in for `s`, when the artifact can be built
SaveResults(s, t) ==
    LET artifact == build_artifact(s, t) IN
    IF artifact.raised # NoError THEN {}
    ELSE { activate_tracking_mode(record_save_result(s, artifact.value, SavedPath(t), t), t) }

\* a step of a run: the agent holds the state s2; what is remembered of the
\* last operation is left as it was when the agent was made
RunStep(s2) ==
    /\ state' = s2
    /\ UNCHANGED << pre, last, decision, err, now, heap >>

\* one user event of the agent
RunEvent == \E e \in RunEvents(state, now) : RunStep(e.value)

RunSave == \E s2 \in SaveResults(state, now) : RunStep(s2)

RunPlanned == \E s2 \in PlannedResults(state, now, RunOutputs) : RunStep(s2)

\* the most dispatches of one run_llm_loop that are followed
MaxDispatch == 4

\* examples/nicegui_app.py run_llm_loop started on `s` after n dispatches, every
\* call succeeding: where the loop ends (the decision is not an llm_skill) and
\* after how many dispatches, or where it is still running after MaxDispatch
RECURSIVE run_llm_loop(_, _, _)
run_llm_loop(s, n, t) ==
    IF next_action(s).decision_type # "llm_skill"
    THEN { [ state |-> s, dispatches |-> n, ended |-> TRUE ] }
    ELSE IF n >= MaxDispatch
    THEN { [ state |-> s, dispatches |-> n, ended |-> FALSE ] }
    ELSE UNION { run_llm_loop(s2, n + 1, t) : s2 \in PlannedResults(s, t, RunOutputs) }

RunInit ==
    /\ state = create_initial_state(0)
    /\ pre = state
    /\ last = [ op |-> "draw", arg |-> NoArg ]
    /\ decision = NoDecision
    /\ err = NoError
    /\ now = 0
    /\ heap = NoHeap

RunNext ==
    /\ Len(state.working.conversation_log) < MaxLog
    /\ \/ RunEvent
       \/ RunSave
       \/ RunPlanned

RunSpec == RunInit /\ [][RunNext]_vars

----------------------------------------------------------------------------
(* Claims about whole runs (RunSpec)                                       *)

\* the descriptions the user has given so far
DescriptionsGiven(s) ==
    Cardinality({ i \in 1..Len(s.working.conversation_log) :
                    s.working.conversation_log[i] = UserEntry(<<"d">>) })

\* the log shows that questions were put to the user
QuestionsLogged(s) ==
    \E i \in 1..Len(s.working.conversation_log) :
        s.working.conversation_log[i] = ConversationEntry("agent", Question(1).question, NoMetadata)

\* C34: the refinement-question ceiling holds over whole runs: in every state
\* reachable from a new agent, skill results being applied by
\* run_planned_action alone and each 'refinement questions produced' result
\* having at most 3 questions, questions_asked <= max_refinement_questions (3).
C34_CeilingOverRuns ==
    /\ state.workflow.max_refinement_questions = MAX_REFINEMENT_QUESTIONS
    /\ state.workflow.questions_asked <= state.workflow.max_refinement_questions

\* three questions asked in one batch, about the second checklist of the run:
\* the ceiling is reached
C34_Witness ==
    /\ DescriptionsGiven(state) >= 2
    /\ Len(state.working.refinement_questions) = MAX_REFINEMENT_QUESTIONS
    /\ state.workflow.questions_asked = MAX_REFINEMENT_QUESTIONS
    /\ state.workflow.phase = "awaiting_user_response"

\* C35: in every state reachable from a new agent (skill results applied by
\* run_planned_action alone), phase asking_refinement_questions implies
\* questions_asked = 0; hence in that phase next_action returns the
\* generate_refinement_questions skill and never the ceiling noop.
C35_AskingStartsAtZero ==
    state.workflow.phase = "asking_refinement_questions" =>
        /\ state.workflow.questions_asked = 0
        /\ next_action(state) = DecisionLlm("generate_refinement_questions",
                                            "Need up to three clarifying questions")

\* the phase reached a second time, after questions had been asked
C35_Witness ==
    /\ state.workflow.phase = "asking_refinement_questions"
    /\ QuestionsLogged(state)
    /\ DescriptionsGiven(state) >= 2
    /\ state.workflow.questions_asked = 0
    /\ next_action(state).skill = "generate_refinement_questions"

\* C37: in every state reachable through the agent (skill results applied by
\* run_planned_action alone), phase generating_summary or presenting_summary
\* implies checklist_is_complete: the summary is requested and presented only
\* for a non-empty checklist whose items and sub-items are all complete.
C37_SummaryOnlyWhenComplete ==
    state.workflow.phase \in { "generating_summary", "presenting_summary" } =>
        checklist_is_complete(state)

\* the summary of a checklist is presented
C37_Witness ==
    /\ state.workflow.phase = "presenting_summary"
    /\ state.working.completion_summary # None
    /\ state.working.progress_log # <<>>
    /\ checklist_is_complete(state)

\* C39: in every reachable state pending_save implies checklist_finalized, and
\* no operation resets checklist_finalized once it is true.
C39_FinalizedBeforeSave ==
    /\ [](state.workflow.pending_save => state.workflow.checklist_finalized)
    /\ [][state.workflow.checklist_finalized => state'.workflow.checklist_finalized]_vars

\* approved again after a save and a new description: the checklist stayed
\* finalized throughout and a save is pending again
C39_Witness ==
    /\ state.workflow.pending_save
    /\ state.workflow.checklist_finalized
    /\ state.working.checklist_file_path # None
    /\ DescriptionsGiven(state) >= 2

\* C40: in every reachable state a clarification prompt that is not null
\* implies awaiting_clarification, and phase asking_clarification implies
\* awaiting_clarification.
C40_ClarificationFieldsTogether ==
    /\ state.working.clarification_prompt # None => state.workflow.awaiting_clarification
    /\ state.workflow.phase = "asking_clarification" => state.workflow.awaiting_clarification

\* a clarification is being asked
C40_Witness ==
    /\ state.workflow.phase = "asking_clarification"
    /\ state.working.clarification_prompt # None
    /\ state.workflow.awaiting_clarification

\* the clarification was acknowledged: both fields are cleared
C40_Cleared ==
    /\ state.workflow.phase = "listening_for_progress"
    /\ state.working.clarification_prompt = None
    /\ ~state.workflow.awaiting_clarification
    /\ \E i \in 1..Len(state.working.conversation_log) :
           state.working.conversation_log[i].metadata = SkillMetadata("interpret_progress_update")

\* C36: run_llm_loop terminates: from every reachable state, every call
\* succeeding and no user event intervening, a noop decision is reached after
\* at most 2 consecutive skill dispatches.
C36_LoopEndsWithinTwo ==
    \A r \in run_llm_loop(state, 0, now) :
        /\ r.ended
        /\ r.dispatches <= 2
        /\ next_action(r.state).decision_type = "noop"

\* a loop of two dispatches: the checklist, then the questions about it
C36_Witness ==
    /\ state.workflow.phase = "generating_checklist"
    /\ \E r \in run_llm_loop(state, 0, now) :
          /\ r.ended
          /\ r.dispatches = 2
          /\ r.state.workflow.phase = "awaiting_user_response"

\* a loop of two dispatches: the progress update, then the summary
C36_Summarised ==
    /\ state.workflow.phase = "interpreting_intent"
    /\ \E r \in run_llm_loop(state, 0, now) :
          /\ r.ended
          /\ r.dispatches = 2
          /\ r.state.workflow.phase = "presenting_summary"

----------------------------------------------------------------------------
(* FlightSpec: run_planned_action of one agent with its external call as a *)
(* suspension point. BeginCall is lines 65-69 of app.py (the decision is    *)
(* made; `pre` keeps the state it was made on), EndCall is lines 75-79 (the *)
(* result is dispatched on self.state as it is then), and between the two   *)
(* another caller may run a user-event entry point of the same agent.       *)

MaxFlightLog == 4

Idle == decision = NoDecision

\* next_decision, and the external call begins
BeginCall ==
    /\ Idle
    /\ next_action(state).decision_type = "llm_skill"
    /\ next_action(state).skill # NoSkill
    /\ decision' = next_action(state)
    /\ pre' = state
    /\ last' = [ op |-> "run_skill", arg |-> NoArg ]
    /\ UNCHANGED << state, err, now, heap >>

\* a user-event entry point of the agent, called while the agent is idle or
\* while its external call is in flight
UserEvent ==
    \E e \in RunEvents(state, now) :
        /\ state' = e.value
        /\ last' = [ op |-> e.op, arg |-> e.arg ]
        /\ err' = NoError
        /\ UNCHANGED << pre, decision, now, heap >>

\* the external call fails: run_planned_action raises and swaps nothing
FailCall ==
    /\ ~Idle
    /\ \E e \in LLMCallErrors :
          /\ err' = e
          /\ last' = [ op |-> "run_planned_action", arg |-> e ]
    /\ decision' = NoDecision
    /\ UNCHANGED << state, pre, now, heap >>

\* the external call returns: the result is dispatched on self.state and
\* swapped in. `pre` becomes the state the result was applied to and `last`
\* tells the skill and the phase the decision was made on.
EndCall ==
    /\ ~Idle
    /\ \E output \in RunOutputs[decision.skill] :
          LET r == update_state_from_skill(state, decision.skill, output, now) IN
          IF r.raised # NoError THEN Raise(r.raised) ELSE Swap(r.value)
    /\ last' = [ op |-> "update_state_from_skill",
                 arg |-> [ skill |-> decision.skill, decided_on |-> pre.workflow.phase ] ]
    /\ pre' = state
    /\ decision' = NoDecision
    /\ UNCHANGED << now, heap >>

FlightInit == RunInit

FlightNext ==
    /\ Len(state.working.conversation_log) < MaxFlightLog
    /\ \/ BeginCall
       \/ UserEvent
       \/ FailCall
       \/ EndCall

FlightSpec == FlightInit /\ [][FlightNext]_vars

\* C38: when a user-event entry point of the agent runs while the external
\* call of run_planned_action is in flight, the skill result is still applied
\* only to a state whose phase is the phase the decision was made on: a result
\* is never applied to a state in a phase that did not request that skill.
C38_ResultAppliedInDecidedPhase ==
    last.op = "update_state_from_skill" =>
        /\ pre.workflow.phase = last.arg.decided_on
        /\ next_action(pre).decision_type = "llm_skill"
        /\ next_action(pre).skill = last.arg.skill

\* without an event in between the result meets the phase that asked for it
C38_Undisturbed ==
    /\ last.op = "update_state_from_skill"
    /\ last.arg.skill = "generate_initial_checklist"
    /\ pre.workflow.phase = "generating_checklist"
    /\ state.workflow.phase = "asking_refinement_questions"

----------------------------------------------------------------------------
(* HeapSpec: two ChecklistAgent instances in one process, with their       *)
(* states as objects. A ResearchState object refers to its WorkflowState    *)
(* object and to its WorkingMemory object. A transition copies the object   *)
(* it is given, assigns to the copy and returns it; the agent then rebinds  *)
(* its `state` attribute. `heap` holds the objects, the attribute of each   *)
(* agent, the reference the caller keeps to the input of the last call, the *)
(* number of calls made so far and, for comparison, the state each agent    *)
(* would have had alone.                                                    *)

Agents == { "a1", "a2" }

MaxObjects == 9

\* the calls followed in one run of the two agents
MaxCalls == 3

Addr == 1..MaxObjects

NoRef == 0

Free == [ kind |-> "free" ]

StateObject(workflow, working) ==
    [ kind |-> "ResearchState", workflow |-> workflow, working |-> working ]

PartObject(kind, value) == [ kind |-> kind, value |-> value ]

\* the value read through the reference a
Deref(objects, a) ==
    [ workflow |-> objects[objects[a].workflow].value,
      working  |-> objects[objects[a].working].value ]

\* the objects that make up the state at a
Parts(objects, a) == { a, objects[a].workflow, objects[a].working }

FreeAddr(objects) == { a \in Addr : objects[a] = Free }

Lowest(S) == CHOOSE a \in S : \A b \in S : a <= b

\* objects no reference in `roots` leads to are given back
Collect(objects, roots) ==
    LET live == UNION { Parts(objects, r) : r \in roots } IN
    [ a \in Addr |-> IF a \in live THEN objects[a] ELSE Free ]

\* copy.copy in the place of deepcopy: a new ResearchState object referring to
\* the parts of the old one
deepcopy_shallow(objects, a) ==
    LET n == Lowest(FreeAddr(objects)) IN
    [ objects |-> [ objects EXCEPT ![n] = objects[a] ], ref |-> n ]

\* new_state = deepcopy(state): new objects of equal values
deepcopy(objects, a) ==
    LET n  == Lowest(FreeAddr(objects))
        wf == Lowest(FreeAddr(objects) \ { n })
        wk == Lowest(FreeAddr(objects) \ { n, wf })
    IN  [ objects |-> [ objects EXCEPT ![n]  = StateObject(wf, wk),
                                       ![wf] = objects[objects[a].workflow],
                                       ![wk] = objects[objects[a].working] ],
          ref |-> n ]

\* the assignments of a transition to new_state, the object at n, after which
\* it reads `value`
Assign(objects, n, value) ==
    [ objects EXCEPT ![objects[n].workflow] = PartObject("WorkflowState", value.workflow),
                     ![objects[n].working]  = PartObject("WorkingMemory", value.working) ]

\* a _swap_state that sets the attribute on the class, for every agent
_swap_state_on_class(state_of, agent, ref) == [ x \in DOMAIN state_of |-> ref ]

\* object.__setattr__(self, "state", new_state)
_swap_state(state_of, agent, ref) == [ state_of EXCEPT ![agent] = ref ]

StateRefs == { heap.state_of[ag] : ag \in Agents }

\* the heap after `agent` called a transition on its state a: c is the copy the
\* transition made and value what it assigned to it
AfterCall(agent, a, c, value, alone) ==
    [ objects  |-> Assign(c.objects, c.ref, value),
      state_of |-> _swap_state(heap.state_of, agent, c.ref),
      held     |-> a,
      calls    |-> heap.calls + 1,
      alone    |-> [ heap.alone EXCEPT ![agent] = alone ] ]

\* an agent's user-event entry point
HeapEvent ==
    \E agent \in Agents :
        LET a == heap.state_of[agent]
            c == deepcopy(Collect(heap.objects, StateRefs), a)
        IN  /\ heap.calls < MaxCalls
            /\ \E e \in RunEvents(Deref(c.objects, c.ref), now) :
                  /\ heap' = AfterCall(agent, a, c, e.value,
                                       (CHOOSE e2 \in RunEvents(heap.alone[agent], now) :
                                            e2.op = e.op).value)
                  /\ last' = [ op |-> e.op, arg |-> e.arg, agent |-> agent ]
            /\ pre' = Deref(heap.objects, a)
            /\ state' = Deref(heap'.objects, heap'.state_of[agent])
            /\ UNCHANGED << decision, err, now >>

\* the value update_state_from_skill returns for the skill planned on s and the
\* output o, or s when no skill is planned or the handler raises
DispatchValue(s, o, t) ==
    LET d == next_action(s) IN
    IF d.decision_type = "llm_skill" /\ d.skill # NoSkill /\ o \in RunOutputs[d.skill]
       /\ update_state_from_skill(s, d.skill, o, t).raised = NoError
    THEN update_state_from_skill(s, d.skill, o, t).value
    ELSE s

\* an agent's run_planned_action, the call succeeding
HeapDispatch ==
    \E agent \in Agents :
        LET a == heap.state_of[agent]
            d == next_action(Deref(heap.objects, a))
            c == deepcopy(Collect(heap.objects, StateRefs), a)
        IN  /\ heap.calls < MaxCalls
            /\ d.decision_type = "llm_skill"
            /\ d.skill # NoSkill
            /\ \E o \in RunOutputs[d.skill] :
                  LET r == update_state_from_skill(Deref(c.objects, c.ref), d.skill, o, now) IN
                  /\ r.raised = NoError
                  /\ heap' = AfterCall(agent, a, c, r.value,
                                       DispatchValue(heap.alone[agent], o, now))
                  /\ last' = [ op |-> "run_planned_action", arg |-> o, agent |-> agent ]
            /\ pre' = Deref(heap.objects, a)
            /\ state' = Deref(heap'.objects, heap'.state_of[agent])
            /\ UNCHANGED << decision, err, now >>

\* the states the agents are made with: a new session, and sessions about to
\* dispatch each of the skills
HeapStarts ==
    LET described == ingest_user_description(create_initial_state(0), <<"d">>, 0)
        listed    == DispatchValue(described,
                                   [ ai_response |-> <<"r">>,
                                     items |-> << Bullet(<<"s">>, <<>>) >> ], 0)
        updated   == ingest_progress_input(listed, <<"p">>, 0)
        completed == DispatchValue(updated,
                                   ProgressOutput(<< Signal(<<ItemId(1)>>, <<>>,
                                                            Some("complete"), None) >>,
                                                  FALSE), 0)
    IN  { create_initial_state(0), described, listed,
          record_user_feedback(listed, <<"f">>, 0), updated, completed }

\* two agents made by from_env(state=...), each with a state object of its own
\* or both with the same state object
HeapInit ==
    /\ state \in HeapStarts
    /\ pre = state
    /\ last = [ op |-> "draw", arg |-> NoArg ]
    /\ decision = NoDecision
    /\ err = NoError
    /\ now = 0
    /\ \E second \in { 1, 4 } :
          heap = [ objects  |-> [ a \in Addr |->
                                    IF a \in { 1, second } THEN StateObject(a + 1, a + 2)
                                    ELSE IF a \in { 2, second + 1 }
                                    THEN PartObject("WorkflowState", state.workflow)
                                    ELSE IF a \in { 3, second + 2 }
                                    THEN PartObject("WorkingMemory", state.working)
                                    ELSE Free ],
                   state_of |-> [ ag \in Agents |-> IF ag = "a1" THEN 1 ELSE second ],
                   held     |-> NoRef,
                   calls    |-> 0,
                   alone    |-> [ ag \in Agents |-> state ] ]

HeapNext ==
    \/ HeapEvent
    \/ HeapDispatch

HeapSpec == HeapInit /\ [][HeapNext]_vars

\* C32: independent sessions do not interfere: with two agents, under every
\* interleaving of their operations, the state of one is changed only by its
\* own operations, and each has the state it would have had alone.
C32_SessionsIndependent ==
    /\ [](\A ag \in Agents : Deref(heap.objects, heap.state_of[ag]) = heap.alone[ag])
    /\ [][\A ag \in Agents :
              ag # last'.agent =>
                  Deref(heap'.objects, heap'.state_of[ag])
                      = Deref(heap.objects, heap.state_of[ag])]_vars

\* both agents have worked, each on its own state, and they differ
C32_Witness ==
    /\ last.op # "draw"
    /\ heap.state_of["a1"] # heap.state_of["a2"]
    /\ Deref(heap.objects, heap.state_of["a1"]).working.conversation_log # <<>>
    /\ Deref(heap.objects, heap.state_of["a2"]).working.conversation_log # <<>>
    /\ Deref(heap.objects, heap.state_of["a1"]) # Deref(heap.objects, heap.state_of["a2"])

\* C33: every transition and every skill-result handler returns a new state and
\* leaves its input unchanged: after the call the input reads, field by field,
\* as before the call, and it shares no object with the state returned, so a
\* later change to that state is not visible through the input.
C33_InputUnchanged ==
    last.op # "draw" =>
        /\ Deref(heap.objects, heap.held) = pre
        /\ heap.state_of[last.agent] # heap.held
        /\ Parts(heap.objects, heap.held)
               \cap Parts(heap.objects, heap.state_of[last.agent]) = {}

\* a handler changed the phase and the log of its copy; the input is held
C33_Witness ==
    /\ last.op = "run_planned_action"
    /\ heap.held # NoRef
    /\ state.workflow.phase # pre.workflow.phase
    /\ state.working.conversation_log # pre.working.conversation_log
    /\ Deref(heap.objects, heap.held) = pre

====
